---- MODULE Spec2Model ----
(***************************************************************************)
(* Model of the jezel job-orchestration core.                              *)
(*                                                                         *)
(*  - Row store (database.py): the five-column table with optimistic       *)
(*    (id, ver) versioning, bulk insert/update/delete.                     *)
(*  - In-memory model store and the user data service (model_database.py,  *)
(*    data_service.py, model.py).                                          *)
(*  - Execution leasing and the execution state machine (the records are   *)
(*    declared in database_object3.py / model.py).                         *)
(***************************************************************************)
EXTENDS Integers, Sequences, FiniteSets, TLC

VARIABLES
    col_id_type,   \* TableDetail.col_id_type of the table: "INT" or "UUID"
    tbl,           \* the rows of the table, by id
    last,          \* the call on the table that has not returned yet: input, outcome, result
    lastVer,       \* history: the ver each id carried when it was last stored (NoVer: never)
    pc,            \* racing callers of update: "idle", "holding" (has read a row), "done"
    held,          \* the row each racing caller read with select_single
    res,           \* what update returned to (or raised in) each racing caller
    checked,       \* a zero-or-one-row UPDATE result handed to check_update_failed, and its outcome
    db_users,      \* ModelDatabaseType(User)._data: the stored users, in insertion order
    thr,           \* each thread's call of save_user: position, argument, the users it read, result
    executions,    \* the stored Executions, by id (state "none": not created)
    queue,         \* the queue of Execution ids waiting for a Worker Thread
    worker_rows,   \* the stored WorkerThread rows: exists, execution_id
    worker,        \* each Worker Thread's loop: position, the Execution it works on, the ver it holds
    cancellations, \* the Executions a CancellationEvent references
    invoked,       \* history: per Execution, the Tasks invoked so far, each with the Worker that invoked it
    cache,         \* SerializableClassesCache.cache: (name, class) in insertion order
    subclasses,    \* the subclasses of Serializable that are defined
    looked,        \* the last call of get_class: the name, the registry before, the outcome
    registered,    \* history: the (name, class) pairs a rescan registered, each class under its own full name
    dbo,           \* the DatabaseObject a caller holds: id, ver, tags, obj
    got,           \* what DatabaseObjectDatabase.get_all returned, decoded
    trg,           \* the TriggerEvent a caller holds, its serialized row, the last operation on it
    server_rows,   \* the stored ExecutionServer rows: exists
    stale_beats,   \* the WorkerThreads and ExecutionServers whose heartbeatOn is older than the liveness threshold
    trigger_queue, \* the Queue of TriggerEvents, head first
    producers,     \* each producer's pushes: seq of the last TriggerEvent handed to push, cancelled, outcome
    consumers,     \* what the last pop returned to each consumer (NoItem: timed out)
    taken,         \* history: the TriggerEvents popped, in the order popped
    overflowed,    \* history: the TriggerEvents whose push failed with Overflow
    db_data,       \* ModelDatabaseType._data of the Job and of the Config store, in insertion order
    calls,         \* each thread's call of save_job, save_config, delete_job or delete_config
    tags_arg,      \* the tags list a caller handed to the model object
    tags_val,      \* the tags list of the model object
    validated,     \* how often the tags validator has run on the list
    objects,       \* the model objects in memory, by reference (one id): ver and a field value
    data_ref,      \* ModelDatabaseType._data[id]: the reference of the stored object (NoRef: none)
    locals         \* each thread: the object it holds, the stored ver it read, its last call on the store and the outcome

rowVars == <<col_id_type, tbl, last>>

casVars == <<pc, held, res>>

usrVars == <<db_users, thr>>

exeVars == <<executions, queue, worker_rows, worker, cancellations, invoked>>

regVars == <<cache, subclasses, looked, registered>>

codecVars == <<dbo, got>>

trigVars == <<trg>>

recVars == <<server_rows, stale_beats>>

tqVars == <<trigger_queue, producers, consumers, taken, overflowed>>

svcVars == <<db_data, calls>>

tagVars == <<tags_arg, tags_val, validated>>

memVars == <<objects, data_ref, locals>>

extVars == <<regVars, codecVars, trigVars, recVars, tqVars, svcVars, tagVars, memVars>>

vars == <<rowVars, lastVer, casVars, checked, usrVars, exeVars, extVars>>

(***************************************************************************)
(* Bounds of the model.                                                    *)
(***************************************************************************)
MaxId == 2
MaxVer == 2
MaxBatch == 2

(***************************************************************************)
(* Program constants.                                                      *)
(***************************************************************************)
ROW_VERSION_DEFAULT == 1
ROW_VERSION_STEP == 1

\* Python None: in a payload column, as an id, as a ver.
Null == "null"
NoId == 0
NoVer == 0

Ids == 1 .. MaxId
DSmalls == {"a", "b"}
DMediums == {"m"}
DLarges == {"x"}

ColumnIdType == {"INT", "UUID"}

Max(S) == CHOOSE x \in S : \A y \in S : y <= x

\* Non-empty sequences over S of length at most n.
BatchesOf(S, n) == UNION {[1 .. k -> S] : k \in 1 .. n}

(***************************************************************************)
(* Row store: rows and table.                                              *)
(***************************************************************************)
Row(i, v, s, m, l) == [id |-> i, ver |-> v, dsmall |-> s, dmedium |-> m, dlarge |-> l]

\* The result None of select_single.
NoRow == Row(NoId, NoVer, Null, Null, Null)

\* A table maps every id to what is stored under it; ver = NoVer: nothing stored.
Absent == [ver |-> NoVer, dsmall |-> Null, dmedium |-> Null, dlarge |-> Null]

EmptyTable == [i \in Ids |-> Absent]

Stored(t, i) == i \in Ids /\ t[i].ver # NoVer

StoredIds(t) == {i \in Ids : Stored(t, i)}

select_count_all(t) == Cardinality(StoredIds(t))

select_dsmalls(t) == {t[i].dsmall : i \in StoredIds(t)}

\* select_single(id, cols): the columns not selected come back None.
select_single(t, i, cols) ==
    IF Stored(t, i)
    THEN Row(i,
             IF "ver" \in cols THEN t[i].ver ELSE NoVer,
             IF "dsmall" \in cols THEN t[i].dsmall ELSE Null,
             IF "dmedium" \in cols THEN t[i].dmedium ELSE Null,
             IF "dlarge" \in cols THEN t[i].dlarge ELSE Null)
    ELSE NoRow

RowColumnsAll == {"ver", "dsmall", "dmedium", "dlarge"}

RECURSIVE SumPow2(_, _)
SumPow2(bools, i) ==
    IF i > Len(bools) THEN 0
    ELSE (IF bools[Len(bools) + 1 - i] THEN 2 ^ (i - 1) ELSE 0) + SumPow2(bools, i + 1)

\* sum(2 ** i for i, v in enumerate(reversed(bools)) if v)
bools2int(bools) == IF Len(bools) = 0 THEN 0 ELSE SumPow2(bools, 1)

\* build_stmts: the SET list of each of the eight cached UPDATE statements
\* (ver is in every one of them).
build_stmts ==
    [k \in 0 .. 7 |->
        CASE k = 0 -> {}
          [] k = 1 -> {"dsmall"}
          [] k = 2 -> {"dmedium"}
          [] k = 3 -> {"dsmall", "dmedium"}
          [] k = 4 -> {"dlarge"}
          [] k = 5 -> {"dsmall", "dlarge"}
          [] k = 6 -> {"dmedium", "dlarge"}
          [] k = 7 -> {"dsmall", "dmedium", "dlarge"}]

\* A mutant of ExecUpdate: the SET list of the statement leaves ver out.
ExecUpdate_ver_not_set(t, cols, row, ver_new) ==
    IF Stored(t, row.id) /\ t[row.id].ver = row.ver
    THEN [tbl |-> [t EXCEPT ![row.id] =
                     [ver |-> @.ver,
                      dsmall |-> IF "dsmall" \in cols THEN row.dsmall ELSE @.dsmall,
                      dmedium |-> IF "dmedium" \in cols THEN row.dmedium ELSE @.dmedium,
                      dlarge |-> IF "dlarge" \in cols THEN row.dlarge ELSE @.dlarge]],
          rowcount |-> 1]
    ELSE [tbl |-> t, rowcount |-> 0]

\* A mutant of ExecUpdate: the WHERE clause of the statement leaves ver out.
ExecUpdate_where_id_only(t, cols, row, ver_new) ==
    IF Stored(t, row.id)
    THEN [tbl |-> [t EXCEPT ![row.id] =
                     [ver |-> ver_new,
                      dsmall |-> IF "dsmall" \in cols THEN row.dsmall ELSE @.dsmall,
                      dmedium |-> IF "dmedium" \in cols THEN row.dmedium ELSE @.dmedium,
                      dlarge |-> IF "dlarge" \in cols THEN row.dlarge ELSE @.dlarge]],
          rowcount |-> 1]
    ELSE [tbl |-> t, rowcount |-> 0]

\* UPDATE t SET ver = :v, <cols> WHERE id = :id AND ver = :ver
ExecUpdate(t, cols, row, ver_new) ==
    IF Stored(t, row.id) /\ t[row.id].ver = row.ver
    THEN [tbl |-> [t EXCEPT ![row.id] =
                     [ver |-> ver_new,
                      dsmall |-> IF "dsmall" \in cols THEN row.dsmall ELSE @.dsmall,
                      dmedium |-> IF "dmedium" \in cols THEN row.dmedium ELSE @.dmedium,
                      dlarge |-> IF "dlarge" \in cols THEN row.dlarge ELSE @.dlarge]],
          rowcount |-> 1]
    ELSE [tbl |-> t, rowcount |-> 0]

Outcome(e, a) == [err |-> e, actual |-> a]

\* A mutant of check_update_failed: the comparison of the two vers is inverted.
check_update_failed_inverted(ct, row, result_row) ==
    IF ct = 1 THEN Outcome("none", NoVer)
    ELSE IF result_row = NoRow THEN Outcome("NotFound", NoVer)
    ELSE IF row.ver = result_row.ver THEN Outcome("Concurrency", result_row.ver)
    ELSE Outcome("Unknown", NoVer)

\* check_update_failed(_result, _row, _stmt); result_row is what the lookup
\* select_single(ID | VER | DSMALL) finds.
check_update_failed(ct, row, result_row) ==
    IF ct = 1 THEN Outcome("none", NoVer)
    ELSE IF result_row = NoRow THEN Outcome("NotFound", NoVer)
    ELSE IF row.ver # result_row.ver THEN Outcome("Concurrency", result_row.ver)
    ELSE Outcome("Unknown", NoVer)

\* A mutant of check_delete_failed: a missing row is an error, as in update.
check_delete_failed_strict(ct, row, result_row) ==
    IF ct = 1 THEN Outcome("none", NoVer)
    ELSE IF result_row = NoRow THEN Outcome("NotFound", NoVer)
    ELSE IF row.ver # result_row.ver THEN Outcome("Concurrency", result_row.ver)
    ELSE Outcome("Unknown", NoVer)

\* check_delete_failed(_result, _row)
check_delete_failed(ct, row, result_row) ==
    IF ct = 1 THEN Outcome("none", NoVer)
    ELSE IF result_row = NoRow THEN Outcome("none", NoVer)
    ELSE IF row.ver # result_row.ver THEN Outcome("Concurrency", result_row.ver)
    ELSE Outcome("Unknown", NoVer)

(***************************************************************************)
(* TableUpdateMixin.update                                                 *)
(***************************************************************************)
Result(ok, e, a, t, out, n, log) ==
    [ok |-> ok, err |-> e, actual |-> a, tbl |-> t, out |-> out, count |-> n, log |-> log]

\* One statement's effect on the stored ver of an id (NoVer: not stored).
Change(i, from, to) == [id |-> i, from |-> from, to |-> to]

stmt_index_of(row) ==
    bools2int(<<row.dlarge # Null, row.dmedium # Null, row.dsmall # Null>>)

\* The columns update re-reads when populate_missing_fields is set.
populate_flags(row) ==
    IF stmt_index_of(row) = 0 THEN RowColumnsAll
    ELSE {"ver"} \cup (IF row.dsmall = Null THEN {"dsmall"} ELSE {})
                 \cup (IF row.dmedium = Null THEN {"dmedium"} ELSE {})
                 \cup (IF row.dlarge = Null THEN {"dlarge"} ELSE {})

\* A mutant of row_ver_new: the step is not added.
row_ver_new_same(row) == row.ver

\* row_ver_new = row.ver + ver_step
row_ver_new(row) == row.ver + ROW_VERSION_STEP

RECURSIVE update_loop(_, _, _, _, _, _)
update_loop(t0, t, rows, populate_missing_fields, out, log) ==
    IF rows = <<>> THEN Result(TRUE, "none", NoVer, t, out, 0, log)
    ELSE
      LET row == Head(rows)
          ver_new == row_ver_new(row)
          stmt_index == stmt_index_of(row)
          ex == IF stmt_index > 0
                THEN ExecUpdate(t, build_stmts[stmt_index], row, ver_new)
                ELSE [tbl |-> t, rowcount |-> 1]
          chk == IF stmt_index > 0
                 THEN check_update_failed(ex.rowcount, row,
                          select_single(ex.tbl, row.id, {"ver", "dsmall"}))
                 ELSE Outcome("none", NoVer)
          flags == populate_flags(row)
          reread == populate_missing_fields /\ flags # {"ver"}
          result_row == select_single(ex.tbl, row.id, flags)
          filled == Row(row.id, ver_new,
                        IF reread /\ row.dsmall = Null THEN result_row.dsmall ELSE row.dsmall,
                        IF reread /\ row.dmedium = Null THEN result_row.dmedium ELSE row.dmedium,
                        IF reread /\ row.dlarge = Null THEN result_row.dlarge ELSE row.dlarge)
      IN  IF chk.err # "none"
          THEN Result(FALSE, chk.err, chk.actual, t0, <<>>, 0, <<>>)
          ELSE IF reread /\ result_row = NoRow
          \* result_row is None: result_row.dsmall raises AttributeError
          THEN Result(FALSE, "AttributeError", NoVer, t0, <<>>, 0, <<>>)
          ELSE update_loop(t0, ex.tbl, Tail(rows), populate_missing_fields,
                           Append(out, filled),
                           IF stmt_index > 0
                           THEN Append(log, Change(row.id, row.ver, ver_new))
                           ELSE log)

RECURSIVE update_each(_, _, _, _, _)
update_each(t, rows, populate_missing_fields, out, log) ==
    IF rows = <<>> THEN Result(TRUE, "none", NoVer, t, out, 0, log)
    ELSE LET r == update_loop(t, t, <<Head(rows)>>, populate_missing_fields, <<>>, <<>>)
         IN  IF r.ok
             THEN update_each(r.tbl, Tail(rows), populate_missing_fields, out \o r.out, log \o r.log)
             ELSE r

\* Variant: every row of the batch is committed by itself.
update_autocommit(t, rows, populate_missing_fields) ==
    update_each(t, rows, populate_missing_fields, <<>>, <<>>)

update(t, rows, populate_missing_fields) ==
    update_loop(t, t, rows, populate_missing_fields, <<>>, <<>>)

(***************************************************************************)
(* TableInsertMixin.insert                                                 *)
(***************************************************************************)
HasNullPayload(row) == row.dsmall = Null \/ row.dmedium = Null \/ row.dlarge = Null

\* r.inserted_primary_key[0] on the integer-id table: the engine of the
\* configured database (SQLite, INTEGER PRIMARY KEY) assigns max(id) + 1.
inserted_primary_key(t) == IF StoredIds(t) = {} THEN 1 ELSE Max(StoredIds(t)) + 1

\* A mutant of insert_ver: the ver the input row carries is kept.
insert_ver_kept(row) == IF row.ver = NoVer THEN ROW_VERSION_DEFAULT ELSE row.ver

\* r.ver = ver_default
insert_ver(row) == ROW_VERSION_DEFAULT

RECURSIVE insert_int(_, _, _, _, _)
insert_int(t0, t, rows, out, log) ==
    IF rows = <<>> THEN Result(TRUE, "none", NoVer, t, out, 0, log)
    ELSE
      LET row == Head(rows)
          nid == inserted_primary_key(t)
      IN  IF HasNullPayload(row)   \* the columns are NOT NULL
          THEN Result(FALSE, "Integrity", NoVer, t0, <<>>, 0, <<>>)
          ELSE insert_int(t0,
                   [t EXCEPT ![nid] = [ver |-> insert_ver(row), dsmall |-> row.dsmall,
                                       dmedium |-> row.dmedium, dlarge |-> row.dlarge]],
                   Tail(rows),
                   Append(out, Row(nid, insert_ver(row), row.dsmall, row.dmedium, row.dlarge)),
                   Append(log, Change(nid, NoVer, insert_ver(row))))

\* gen[k] is what uuid_gen() returns for the k-th row (used when its id is None).
RECURSIVE insert_uuid(_, _, _, _, _, _)
insert_uuid(t0, t, rows, gen, out, log) ==
    IF rows = <<>> THEN Result(TRUE, "none", NoVer, t, out, 0, log)
    ELSE
      LET row == Head(rows)
          nid == IF row.id = NoId THEN Head(gen) ELSE row.id
      IN  IF HasNullPayload(row) \/ Stored(t, nid)   \* NOT NULL, primary key
          THEN Result(FALSE, "Integrity", NoVer, t0, <<>>, 0, <<>>)
          ELSE insert_uuid(t0,
                   [t EXCEPT ![nid] = [ver |-> insert_ver(row), dsmall |-> row.dsmall,
                                       dmedium |-> row.dmedium, dlarge |-> row.dlarge]],
                   Tail(rows), Tail(gen),
                   Append(out, Row(nid, insert_ver(row), row.dsmall, row.dmedium, row.dlarge)),
                   Append(log, Change(nid, NoVer, insert_ver(row))))

insert(id_type, t, rows, gen) ==
    IF id_type = "INT" THEN insert_int(t, t, rows, <<>>, <<>>)
    ELSE insert_uuid(t, t, rows, gen, <<>>, <<>>)

(***************************************************************************)
(* TableDeleteMixin.delete, delete_dsmalls, delete_all                     *)
(***************************************************************************)
\* DELETE FROM t WHERE id = :id AND ver = :ver
ExecDelete(t, row) ==
    IF Stored(t, row.id) /\ t[row.id].ver = row.ver
    THEN [tbl |-> [t EXCEPT ![row.id] = Absent], rowcount |-> 1]
    ELSE [tbl |-> t, rowcount |-> 0]

RECURSIVE delete_loop(_, _, _, _)
delete_loop(t0, t, rows, log) ==
    IF rows = <<>> THEN Result(TRUE, "none", NoVer, t, <<>>, 0, log)
    ELSE
      LET row == Head(rows)
          ex == ExecDelete(t, row)
          chk == check_delete_failed(ex.rowcount, row,
                     select_single(ex.tbl, row.id, {"ver", "dsmall"}))
      IN  IF chk.err # "none"
          THEN Result(FALSE, chk.err, chk.actual, t0, <<>>, 0, <<>>)
          ELSE delete_loop(t0, ex.tbl, Tail(rows),
                           IF ex.rowcount = 1
                           THEN Append(log, Change(row.id, row.ver, NoVer))
                           ELSE log)

delete(t, rows) == delete_loop(t, t, rows, <<>>)

RECURSIVE delete_dsmalls_loop(_, _, _)
delete_dsmalls_loop(t, types, rcount) ==
    IF types = <<>> THEN Result(TRUE, "none", NoVer, t, <<>>, rcount, <<>>)
    ELSE
      LET hit == {i \in StoredIds(t) : t[i].dsmall = Head(types)}
      IN  delete_dsmalls_loop([i \in Ids |-> IF i \in hit THEN Absent ELSE t[i]],
                              Tail(types), rcount + Cardinality(hit))

\* Variant: the comparison of dsmall ignores case.
delete_dsmalls_nocase(t, types) ==
    delete_dsmalls_loop(t, [k \in 1 .. Len(types) |-> IF types[k] = "A" THEN "a" ELSE types[k]], 0)

delete_dsmalls(t, types) == delete_dsmalls_loop(t, types, 0)

delete_all(t) == Result(TRUE, "none", NoVer, EmptyTable, <<>>, select_count_all(t), <<>>)

(***************************************************************************)
(* The row store under arbitrary calls: each call of insert, update,       *)
(* delete, delete_dsmalls and delete_all (without an outer connection) is  *)
(* one transaction.                                                        *)
(***************************************************************************)
Call(op, rows, populate, pre, r) ==
    [op |-> op, rows |-> rows, populate |-> populate, pre |-> pre,
     ok |-> r.ok, err |-> r.err, actual |-> r.actual, out |-> r.out,
     count |-> r.count, log |-> r.log]

NoCall == Call("none", <<>>, FALSE, EmptyTable,
               Result(TRUE, "none", NoVer, EmptyTable, <<>>, 0, <<>>))

\* Rows handed to insert: the tests pass id and ver None; a caller of a UUID
\* table may supply the id; a ver the row carries is ignored.
InsertInputs ==
    {Row(i, v, s, m, l) : i \in {NoId} \cup Ids, v \in {NoVer, MaxVer},
                          s \in DSmalls \cup {Null}, m \in DMediums, l \in DLarges}

InsertInputsBulk ==
    {Row(i, NoVer, s, m, l) : i \in {NoId, 1}, s \in DSmalls, m \in DMediums, l \in DLarges}

\* Rows handed to update: any id and ver, every null pattern of the payload.
UpdateInputs ==
    {Row(i, v, s, m, l) : i \in Ids, v \in 1 .. MaxVer,
                          s \in DSmalls \cup {Null}, m \in DMediums \cup {Null},
                          l \in DLarges \cup {Null}}

UpdateInputsBulk ==
    {Row(i, v, s, Null, Null) : i \in Ids, v \in 1 .. MaxVer - 1, s \in {"b"}}

DeleteInputs ==
    {Row(i, v, Null, Null, Null) : i \in {NoId} \cup Ids, v \in {NoVer} \cup 1 .. MaxVer}

DeleteInputsBulk ==
    {Row(i, v, Null, Null, Null) : i \in Ids, v \in 1 .. MaxVer - 1}

Singles(S) == {<<r>> : r \in S}

Bulks(S) == UNION {[1 .. k -> S] : k \in 2 .. MaxBatch}

\* What uuid_gen() may return for the rows of a batch: for each row without
\* an id a UUID that is not stored and is no other row's id.
UuidGens(t, rows) ==
    {g \in [1 .. Len(rows) -> {NoId} \cup Ids] :
        /\ \A k \in 1 .. Len(rows) :
              IF rows[k].id = NoId
              THEN g[k] \in Ids \ StoredIds(t) /\ \A j \in 1 .. Len(rows) : rows[j].id # g[k]
              ELSE g[k] = NoId
        /\ \A j, k \in 1 .. Len(rows) : (j # k /\ g[j] # NoId) => g[j] # g[k]}

Idle == last.op = "none"

Insert(rows) ==
    /\ Idle
    /\ \/ col_id_type = "UUID"
       \/ inserted_primary_key(tbl) + Len(rows) - 1 <= MaxId
    /\ \E gen \in (IF col_id_type = "UUID" THEN UuidGens(tbl, rows) ELSE {<<>>}) :
          LET r == insert(col_id_type, tbl, rows, gen)
          IN  /\ tbl' = r.tbl
              /\ last' = Call("insert", rows, FALSE, tbl, r)
    /\ UNCHANGED col_id_type

Update(rows, populate_missing_fields) ==
    LET r == update(tbl, rows, populate_missing_fields)
    IN  /\ Idle
        /\ \A i \in Ids : r.tbl[i].ver <= MaxVer   \* the model stops at ver MaxVer
        /\ tbl' = r.tbl
        /\ last' = Call("update", rows, populate_missing_fields, tbl, r)
        /\ UNCHANGED col_id_type

Delete(rows) ==
    LET r == delete(tbl, rows)
    IN  /\ Idle
        /\ tbl' = r.tbl
        /\ last' = Call("delete", rows, FALSE, tbl, r)
        /\ UNCHANGED col_id_type

\* The values handed to delete_dsmalls: the stored ones, one that differs
\* from a stored one in case only, and one that no row carries.
DSmallArgs == DSmalls \cup {"A", "c"}

DeleteDsmalls(types) ==
    LET r == delete_dsmalls(tbl, types)
    IN  /\ Idle
        /\ tbl' = r.tbl
        /\ last' = Call("delete_dsmalls", [k \in 1 .. Len(types) |-> Row(NoId, NoVer, types[k], Null, Null)],
                        FALSE, tbl, r)
        /\ UNCHANGED col_id_type

DeleteAll ==
    LET r == delete_all(tbl)
    IN  /\ Idle
        /\ tbl' = r.tbl
        /\ last' = Call("delete_all", <<>>, FALSE, tbl, r)
        /\ UNCHANGED col_id_type

\* The call returns (or raises) to its caller; the table is ready for the next call.
Return ==
    /\ ~Idle
    /\ last' = NoCall
    /\ UNCHANGED <<col_id_type, tbl>>

Callers == {"c1", "c2"}

NoResult == [ok |-> FALSE, err |-> "none", actual |-> NoVer, out |-> NoRow]

\* No caller is racing.
CasNone ==
    /\ pc = [c \in Callers |-> "idle"]
    /\ held = [c \in Callers |-> NoRow]
    /\ res = [c \in Callers |-> NoResult]

NoCheck == [ct |-> 1, row |-> NoRow, result_row |-> NoRow, done |-> FALSE, outcome |-> Outcome("none", NoVer)]

Threads == {"t1", "t2"}

\* A User; the username is a string of characters, None is the empty sequence.
UserOf(i, v, n, sys) == [id |-> i, ver |-> v, username |-> n, is_system |-> sys]

NoName == <<>>

NoUser == UserOf(NoId, NoVer, NoName, FALSE)

\* arg: the user as the caller passed it; user: the same after user.check().
ThreadAt(pos, arg, user, users, ok, err, pre) ==
    [pc |-> pos, arg |-> arg, user |-> user, users |-> users, ok |-> ok, err |-> err, pre |-> pre]

IdleThread == ThreadAt("idle", NoUser, NoUser, <<>>, FALSE, "none", <<>>)

\* No user is stored and no thread is in save_user.
UsrNone ==
    /\ db_users = <<>>
    /\ thr = [t \in Threads |-> IdleThread]

MaxExecs == 1
MaxTasks == 2
QueueCap == 1

ExecIds == 1 .. MaxExecs

Workers == {"w1", "w2"}

EXECUTION_STATE_TRIGGERED == "triggered"
EXECUTION_STATE_QUEUED == "queued"
EXECUTION_STATE_STARTED == "started"
EXECUTION_STATE_COMPLETED == "completed"
EXECUTION_STATE_CANCELLED == "cancelled"
EXECUTION_STATE_ERROR == "error"

NoTask == 0

\* An Execution as stored: its fields and the ver of its row.
ExecutionOf(state, ver, task, started, completed, cancel, thread) ==
    [state |-> state, ver |-> ver, executing_task_id |-> task, started_on |-> started,
     completed_on |-> completed, cancellation_event_id |-> cancel,
     execution_server_thread_id |-> thread]

NoExecution == ExecutionOf("none", NoVer, NoTask, Null, Null, Null, Null)

WorkerRow(exists, execution_id) == [exists |-> exists, execution_id |-> execution_id]

WorkerAt(pos, e, ver) == [pc |-> pos, execution_id |-> e, ver |-> ver]

\* No Execution exists; every Worker Thread has its row and polls the queue.
ExeNone ==
    /\ executions = [e \in ExecIds |-> NoExecution]
    /\ queue = <<>>
    /\ worker_rows = [w \in Workers |-> WorkerRow(TRUE, NoId)]
    /\ worker = [w \in Workers |-> WorkerAt("poll", NoId, NoVer)]
    /\ cancellations = {}
    /\ invoked = [e \in ExecIds |-> <<>>]

\* A class: its __module__ and __qualname__ (characters); no class: None.
ClassOf(module, name) == [module |-> module, name |-> name]

NoClass == ClassOf(<<>>, <<>>)

NoLookup == [name |-> <<>>, before |-> <<>>, items |-> <<>>, cls |-> NoClass, step |-> "none"]

\* The registry holds no class and no lookup was made.
RegNone ==
    /\ cache = <<>>
    /\ subclasses = {}
    /\ looked = NoLookup
    /\ registered = {}

\* Python None, a str (a sequence of characters) and an int, as field values.
PyNone == [kind |-> "none", s |-> <<>>, n |-> 0]

PyStr(s) == [kind |-> "str", s |-> s, n |-> 0]

PyInt(n) == [kind |-> "int", s |-> <<>>, n |-> n]

\* TestObjectPerson (tests/test_database_object.py): a SerializableBase
\* dataclass with str and int fields.
Person(cls, first_name, age) == [cls |-> cls, first_name |-> first_name, age |-> age]

NoObject == Person(NoClass, PyNone, PyNone)

TagKeys == {"k"}

NoTags == [k \in TagKeys |-> PyNone]

\* DatabaseObject: _id, _ver, _tags, _obj; saved: nothing was changed since save().
DatabaseObject(id, ver, tags, obj, saved, err) ==
    [id |-> id, ver |-> ver, tags |-> tags, obj |-> obj, saved |-> saved, err |-> err]

NoDatabaseObject == DatabaseObject(NoId, NoVer, NoTags, NoObject, FALSE, "none")

\* No DatabaseObject is held and get_all was not called.
CodecNone ==
    /\ dbo = NoDatabaseObject
    /\ got = <<>>

\* TriggerEvent (database_object3.py): the fields the check is about.
TriggerEventOf(job_id, schedule, user) ==
    [job_id |-> job_id, triggered_by_job_schedule_id |-> schedule, triggered_by_user_id |-> user]

NoTriggerEvent == TriggerEventOf("none", Null, Null)

\* DatabaseRow: parent_id and the data dict (a key without value is absent).
TriggerRow(parent_id, schedule, user) ==
    [parent_id |-> parent_id,
     data |-> [triggeredByJobScheduleId |-> schedule, triggeredByUserId |-> user]]

NoTriggerRow == TriggerRow("none", Null, Null)

TriggerAt(obj, row, op, err) == [obj |-> obj, row |-> row, op |-> op, err |-> err]

\* No TriggerEvent is held and no row was written.
TrigNone == trg = TriggerAt(NoTriggerEvent, NoTriggerRow, "none", "none")

Servers == {"s1", "s2"}

\* Every ExecutionServer has its row and every heartbeat is fresh.
RecNone ==
    /\ server_rows = [s \in Servers |-> TRUE]
    /\ stale_beats = {}

Producers == {"scheduler", "manual"}

Consumers == {"c1", "c2"}

NoItem == [producer |-> "none", seq |-> 0]

\* A producer: how many TriggerEvents it has handed to push (seq of the last
\* one), whether it is cancelled, the outcome of its last push.
ProducerAt(seq, cancelled, outcome) == [seq |-> seq, cancelled |-> cancelled, outcome |-> outcome]

\* The trigger queue is empty, nothing was pushed or popped.
TqNone ==
    /\ trigger_queue = <<>>
    /\ producers = [p \in Producers |-> ProducerAt(0, FALSE, "none")]
    /\ consumers = [c \in Consumers |-> NoItem]
    /\ taken = <<>>
    /\ overflowed = {}

\* ModelDatabase._db: one ModelDatabaseType per model class.
ModelTypes == {"Job", "Config"}

\* A Job or a Config: its class, id, ver and name.
EntityOf(cls, i, v, n) == [cls |-> cls, id |-> i, ver |-> v, name |-> n]

NoEntity == EntityOf("none", 0, 0, <<>>)

\* A call of the data service: position, method, the object as passed and as
\* checked, outcome.
CallAt(pos, op, arg, obj, ok, err) ==
    [pc |-> pos, op |-> op, arg |-> arg, obj |-> obj, ok |-> ok, err |-> err]

NoStores == [cls \in ModelTypes |-> <<>>]

IdleCall == CallAt("idle", "none", NoEntity, NoEntity, FALSE, "none")

\* Nothing is stored and no call is under way.
SvcNone ==
    /\ db_data = NoStores
    /\ calls = [t \in Threads |-> IdleCall]


\* A Tag: name and value; none: the list entry is None.
TagOf(name, value) == [none |-> FALSE, name |-> name, value |-> value]

NoneTag == [none |-> TRUE, name |-> <<>>, value |-> <<>>]

\* No tags list is under validation.
TagsNone ==
    /\ tags_arg = <<>>
    /\ tags_val = <<>>
    /\ validated = 0


\* References to model objects: one per thread and one for the store.
ObjRefs == 1 .. Cardinality(Threads) + 1

NoRef == 0

ModelObj(ver, value) == [ver |-> ver, value |-> value]

NoModelObj == ModelObj(0, "none")

LocalOf(ref, read_ver, op, outcome) ==
    [ref |-> ref, read_ver |-> read_ver, op |-> op, outcome |-> outcome]

\* No object exists, none is stored, no thread holds one.
MemNone ==
    /\ objects = [r \in ObjRefs |-> NoModelObj]
    /\ data_ref = NoRef
    /\ locals = [t \in Threads |-> LocalOf(NoRef, 0, "none", "none")]

ExtNone ==
    /\ RegNone
    /\ CodecNone
    /\ TrigNone
    /\ RecNone
    /\ TqNone
    /\ SvcNone
    /\ TagsNone
    /\ MemNone

RowInit ==
    /\ col_id_type \in ColumnIdType
    /\ tbl = EmptyTable
    /\ last = NoCall
    /\ lastVer = [i \in Ids |-> NoVer]
    /\ CasNone
    /\ checked = NoCheck
    /\ UsrNone
    /\ ExeNone
    /\ ExtNone

InsertBatches == Singles(InsertInputs) \cup Bulks(InsertInputsBulk)

UpdateBatches == Singles(UpdateInputs) \cup Bulks(UpdateInputsBulk)

DeleteBatches == Singles(DeleteInputs) \cup Bulks(DeleteInputsBulk)

DsmallBatches == BatchesOf(DSmallArgs, MaxBatch)

\* What the calls on the table leave alone.
notRowVars == <<lastVer, casVars, checked, usrVars, exeVars, extVars>>

RowNext ==
    \/ Idle /\ \E rows \in InsertBatches : Insert(rows) /\ UNCHANGED notRowVars
    \/ Idle /\ \E rows \in UpdateBatches, p \in BOOLEAN : Update(rows, p) /\ UNCHANGED notRowVars
    \/ Idle /\ \E rows \in DeleteBatches : Delete(rows) /\ UNCHANGED notRowVars
    \/ Idle /\ \E types \in DsmallBatches : DeleteDsmalls(types) /\ UNCHANGED notRowVars
    \/ DeleteAll /\ UNCHANGED notRowVars
    \/ Return /\ UNCHANGED notRowVars

SpecRow == RowInit /\ [][RowNext]_vars

(***************************************************************************)
(* Claims on the row store.                                                *)
(***************************************************************************)
Matches(t, row) == Stored(t, row.id) /\ t[row.id].ver = row.ver

SamePayload(a, b) == a.dsmall = b.dsmall /\ a.dmedium = b.dmedium /\ a.dlarge = b.dlarge

\* C2: every successful update, single or bulk, on an integer-id or UUID-id
\* table returns one row per input row, in input order, with the id of the
\* input row and its ver plus one.
C2_UpdateReturnsIdAndNextVer ==
    (last.op = "update" /\ last.ok) =>
        /\ Len(last.out) = Len(last.rows)
        /\ \A k \in 1 .. Len(last.rows) :
              /\ last.out[k].id = last.rows[k].id
              /\ last.out[k].ver = last.rows[k].ver + 1

C2_Witness ==
    /\ last.op = "update" /\ last.ok
    /\ Len(last.rows) = 2
    /\ last.rows[1].id # last.rows[2].id
    /\ \A k \in 1 .. 2 : Matches(last.pre, last.rows[k])

\* C3: a successful insert returns, in input order, one row per input row with
\* the payload unchanged, ver 1 whatever ver the input carried, and a non-null
\* id that no other stored row has; the row count grows by the number of rows.
C3_InsertReturnsFreshRows ==
    (last.op = "insert" /\ last.ok) =>
        /\ Len(last.out) = Len(last.rows)
        /\ \A k \in 1 .. Len(last.rows) :
              /\ SamePayload(last.out[k], last.rows[k])
              /\ last.out[k].ver = 1
              /\ last.out[k].id # NoId
              /\ ~Stored(last.pre, last.out[k].id)
              /\ \A j \in 1 .. Len(last.rows) : j # k => last.out[j].id # last.out[k].id
              /\ select_single(tbl, last.out[k].id, RowColumnsAll) = last.out[k]
        /\ select_count_all(tbl) = select_count_all(last.pre) + Len(last.rows)

C3_Witness ==
    /\ last.op = "insert" /\ last.ok
    /\ Len(last.rows) = 2
    /\ last.rows[1].dsmall # last.rows[2].dsmall

\* C6: delete removes exactly the stored rows that match an input row in id
\* and ver; an input row whose id is not stored is skipped silently; an input
\* row whose id is stored under another ver makes the call fail with a
\* Concurrency error and stay stored; no other row is touched; deleting every
\* stored row leaves the table empty.
C6_DeleteByIdAndVer ==
    (last.op = "delete") =>
        LET hit(i) == \E k \in 1 .. Len(last.rows) :
                          last.rows[k].id = i /\ Matches(last.pre, last.rows[k])
            stale(k) == /\ Stored(last.pre, last.rows[k].id)
                        /\ last.pre[last.rows[k].id].ver # last.rows[k].ver
        IN  /\ last.ok =>
                /\ \A i \in Ids : tbl[i] = IF hit(i) THEN Absent ELSE last.pre[i]
                /\ (\A i \in StoredIds(last.pre) : hit(i)) => select_count_all(tbl) = 0
            /\ ~last.ok =>
                /\ last.err = "Concurrency"
                /\ tbl = last.pre
                /\ \E k \in 1 .. Len(last.rows) :
                      stale(k) /\ last.actual = last.pre[last.rows[k].id].ver
            /\ (\E k \in 1 .. Len(last.rows) : stale(k) /\ ~hit(last.rows[k].id)) => ~last.ok

C6_Witness ==
    /\ last.op = "delete" /\ ~last.ok
    /\ Len(last.rows) = 2
    /\ Matches(last.pre, last.rows[1])
    /\ Stored(last.pre, last.rows[2].id)
    /\ last.rows[2].id # last.rows[1].id

(***************************************************************************)
(* The row store with the history of each id's ver: the same calls, and    *)
(* lastVer remembers the ver every id was last stored under before the     *)
(* call that is being made.                                                *)
(***************************************************************************)
Remember == lastVer' = [i \in Ids |-> IF Stored(tbl, i) THEN tbl[i].ver ELSE lastVer[i]]

VerInsertBatches ==
    Singles({Row(i, NoVer, "a", m, l) : i \in {NoId} \cup Ids, m \in DMediums, l \in DLarges})

VerUpdateBatches ==
    Singles({Row(i, v, s, Null, Null) : i \in Ids, v \in 1 .. MaxVer, s \in {"b", Null}})
        \cup {<<r1, r2>> : r1 \in UpdateInputsBulk, r2 \in UpdateInputsBulk}

VerDeleteBatches == Singles(DeleteInputs)

VerDsmallBatches == Singles(DSmallArgs)

notVerVars == <<casVars, checked, usrVars, exeVars, extVars>>

VerNext ==
    \/ Idle /\ \E rows \in VerInsertBatches : Insert(rows) /\ Remember /\ UNCHANGED notVerVars
    \/ Idle /\ \E rows \in VerUpdateBatches, p \in BOOLEAN :
                  Update(rows, p) /\ Remember /\ UNCHANGED notVerVars
    \/ Idle /\ \E rows \in VerDeleteBatches : Delete(rows) /\ Remember /\ UNCHANGED notVerVars
    \/ Idle /\ \E types \in VerDsmallBatches :
                  DeleteDsmalls(types) /\ Remember /\ UNCHANGED notVerVars
    \/ DeleteAll /\ Remember /\ UNCHANGED notVerVars
    \/ Return /\ UNCHANGED lastVer /\ UNCHANGED notVerVars

SpecVer == RowInit /\ [][VerNext]_vars

\* C4 (as claimed): the ver stored for an id never decreases, also across a
\* delete and a later insert of the same id, and every statement that changes
\* the ver of a stored row adds exactly 1.
C4_VerNeverResets ==
    /\ \A i \in Ids : Stored(tbl, i) => tbl[i].ver >= lastVer[i]
    /\ \A k \in 1 .. Len(last.log) :
          (last.log[k].from # NoVer /\ last.log[k].to # NoVer)
              => last.log[k].to = last.log[k].from + 1

\* How often the call changed the ver of id i.
ChangesOf(i) == Cardinality({k \in 1 .. Len(last.log) : last.log[k].id = i})

\* C4 (amended): while a row stays stored its ver never decreases and every
\* update statement that changes it adds exactly 1; an insert stores ver 1,
\* also under an id whose earlier row was deleted at a higher ver.
C4_VerStepsWhileStored ==
    (last.op # "none") =>
        /\ \A k \in 1 .. Len(last.log) :
              /\ (last.log[k].from # NoVer /\ last.log[k].to # NoVer)
                    => last.log[k].to = last.log[k].from + 1
              /\ (last.log[k].from = NoVer) => last.log[k].to = 1
        /\ \A i \in Ids :
              Stored(tbl, i) =>
                  IF Stored(last.pre, i)
                  THEN tbl[i].ver = last.pre[i].ver + ChangesOf(i)
                  ELSE tbl[i].ver = 1

C4_Witness ==
    /\ last.op = "insert" /\ last.ok
    /\ \E i \in Ids : ~Stored(last.pre, i) /\ Stored(tbl, i) /\ lastVer[i] > tbl[i].ver

(***************************************************************************)
(* Two callers race on the table: each reads a row with select_single and  *)
(* later calls update with the row it holds and a payload of its own.      *)
(* Each call is one transaction.                                           *)
(***************************************************************************)
\* The tables the race can start from: any rows the store can hold.
CasTables ==
    [Ids -> {Absent} \cup
            {[ver |-> v, dsmall |-> "a", dmedium |-> m, dlarge |-> l] :
                 v \in 1 .. MaxVer, m \in DMediums, l \in DLarges}]

\* The payload caller c writes: its own value, or None, in each column.
OwnPayloads(c) ==
    {[dsmall |-> c, dmedium |-> c, dlarge |-> c],
     [dsmall |-> c, dmedium |-> Null, dlarge |-> Null],
     [dsmall |-> Null, dmedium |-> c, dlarge |-> c],
     [dsmall |-> Null, dmedium |-> Null, dlarge |-> Null]}

CasInit ==
    /\ col_id_type \in ColumnIdType
    /\ tbl \in CasTables
    /\ last = NoCall
    /\ lastVer = [i \in Ids |-> NoVer]
    /\ CasNone
    /\ checked = NoCheck
    /\ UsrNone
    /\ ExeNone
    /\ ExtNone

\* row = table.select_single(id)
CasRead(c, i) ==
    /\ pc[c] = "idle"
    /\ Stored(tbl, i)
    /\ held' = [held EXCEPT ![c] = select_single(tbl, i, RowColumnsAll)]
    /\ pc' = [pc EXCEPT ![c] = "holding"]
    /\ UNCHANGED <<tbl, res>>

\* table.update([Row(row.id, row.ver, payload)]) or table.save(...)
CasUpdate(c, payload, populate_missing_fields) ==
    LET row == Row(held[c].id, held[c].ver, payload.dsmall, payload.dmedium, payload.dlarge)
        r == update(tbl, <<row>>, populate_missing_fields)
    IN  /\ pc[c] = "holding"
        /\ \A i \in Ids : r.tbl[i].ver <= MaxVer
        /\ tbl' = r.tbl
        /\ res' = [res EXCEPT ![c] =
                      [ok |-> r.ok, err |-> r.err, actual |-> r.actual,
                       out |-> IF r.ok THEN r.out[1] ELSE NoRow]]
        /\ held' = [held EXCEPT ![c] =
                      Row(row.id, row.ver, payload.dsmall, payload.dmedium, payload.dlarge)]
        /\ pc' = [pc EXCEPT ![c] = "done"]

notCasVars == <<col_id_type, last, lastVer, checked, usrVars, exeVars, extVars>>

CasNext ==
    \/ \E c \in Callers, i \in Ids : CasRead(c, i) /\ UNCHANGED notCasVars
    \/ \E c \in Callers, p \in BOOLEAN :
          \E payload \in OwnPayloads(c) : CasUpdate(c, payload, p) /\ UNCHANGED notCasVars

SpecCas == CasInit /\ [][CasNext]_vars

NonNullPayload(row) == row.dsmall # Null \/ row.dmedium # Null \/ row.dlarge # Null

\* Both callers have called update with a payload of their own for the same (id, ver).
CasRaced ==
    /\ \A c \in Callers : pc[c] = "done" /\ NonNullPayload(held[c])
    /\ held["c1"].id = held["c2"].id
    /\ held["c1"].ver = held["c2"].ver

\* C1: when two callers hold the same stored row (id, ver = v) and each calls
\* update with a non-null payload of its own, then whatever the order exactly
\* one update succeeds and returns ver v + 1, the other fails with a
\* Concurrency error, and a re-read shows ver v + 1 with the winner's payload.
C1_UpdateIsCompareAndSwap ==
    CasRaced =>
        \E w \in Callers : \E l \in Callers \ {w} :
            /\ res[w].ok /\ res[w].out.id = held[w].id /\ res[w].out.ver = held[w].ver + 1
            /\ ~res[l].ok /\ res[l].err = "Concurrency" /\ res[l].actual = held[w].ver + 1
            /\ LET now == select_single(tbl, held[w].id, RowColumnsAll)
               IN  /\ now.ver = held[w].ver + 1
                   /\ held[w].dsmall # Null => now.dsmall = held[w].dsmall
                   /\ held[w].dmedium # Null => now.dmedium = held[w].dmedium
                   /\ held[w].dlarge # Null => now.dlarge = held[w].dlarge
                   /\ held[l].dsmall # Null => now.dsmall # held[l].dsmall
                   /\ held[l].dmedium # Null => now.dmedium # held[l].dmedium
                   /\ held[l].dlarge # Null => now.dlarge # held[l].dlarge

C1_Witness ==
    /\ CasRaced
    /\ res["c2"].ok /\ ~res["c1"].ok
    /\ held["c1"].dsmall = "c1" /\ held["c2"].dsmall = "c2"

(***************************************************************************)
(* check_update_failed on its own: the UPDATE of one row has reported its  *)
(* rowcount, and with rowcount 0 the row is looked up in the table as it   *)
(* is at that moment (another connection may have committed since the      *)
(* UPDATE ran).                                                            *)
(***************************************************************************)
ChkTables == CasTables

\* The rows whose UPDATE is checked.
ChkRows == {Row(i, v, s, Null, Null) : i \in Ids, v \in 1 .. MaxVer, s \in DSmalls}

\* result.rowcount of an UPDATE ... WHERE id = :id AND ver = :ver (id is the primary key)
RowCounts == 0 .. 1

\* rowcount 1 leaves the row behind with its new ver.
ChkCanBe(ct, row) == ct = 1 => (Stored(tbl, row.id) /\ tbl[row.id].ver = row_ver_new(row))

Check(ct, row, done) ==
    [ct |-> ct, row |-> row,
     result_row |-> IF ct = 1 THEN NoRow ELSE select_single(tbl, row.id, {"ver", "dsmall"}),
     done |-> done,
     outcome |-> IF done
                 THEN check_update_failed(ct, row, select_single(tbl, row.id, {"ver", "dsmall"}))
                 ELSE Outcome("none", NoVer)]

ChkInit ==
    /\ col_id_type \in ColumnIdType
    /\ tbl \in ChkTables
    /\ last = NoCall
    /\ lastVer = [i \in Ids |-> NoVer]
    /\ CasNone
    /\ UsrNone
    /\ ExeNone
    /\ ExtNone
    /\ \E ct \in RowCounts, row \in ChkRows :
          ChkCanBe(ct, row) /\ checked = Check(ct, row, FALSE)

\* check_update_failed(result, row, stmt)
ChkApply ==
    /\ ~checked.done
    /\ checked' = Check(checked.ct, checked.row, TRUE)

\* The next statement's result.
ChkDraw(ct, row) ==
    /\ checked.done
    /\ ChkCanBe(ct, row)
    /\ checked' = Check(ct, row, FALSE)

notChkVars == <<rowVars, lastVer, casVars, usrVars, exeVars, extVars>>

ChkNext ==
    \/ ChkApply /\ UNCHANGED notChkVars
    \/ \E ct \in RowCounts, row \in ChkRows : ChkDraw(ct, row) /\ UNCHANGED notChkVars

SpecChk == ChkInit /\ [][ChkNext]_vars

\* C5: an UPDATE of (id, ver) that affects zero rows ends in exactly one of
\* three errors, decided by looking the id up: NotFound when the id is not
\* stored, Concurrency carrying the stored ver when the id is stored under
\* another ver, Unknown when it is stored under the same ver.
C5_ZeroRowUpdateDiscriminated ==
    (checked.done /\ checked.ct = 0) =>
        LET i == checked.row.id
        IN  /\ checked.outcome.err \in {"NotFound", "Concurrency", "Unknown"}
            /\ checked.outcome.err = "NotFound" <=> ~Stored(tbl, i)
            /\ checked.outcome.err = "Concurrency" <=>
                  (Stored(tbl, i) /\ tbl[i].ver # checked.row.ver)
            /\ checked.outcome.err = "Concurrency" => checked.outcome.actual = tbl[i].ver
            /\ checked.outcome.err = "Unknown" <=>
                  (Stored(tbl, i) /\ tbl[i].ver = checked.row.ver)

C5_Witness ==
    /\ checked.done /\ checked.ct = 0
    /\ Stored(tbl, checked.row.id)
    /\ tbl[checked.row.id].ver = checked.row.ver
    /\ checked.outcome.err = "Unknown"

(***************************************************************************)
(* Strings (utils.py, model.py): trim and casefold of a username.          *)
(***************************************************************************)
\* What a caller may pass as username: plain, in capitals, padded, another name, blank.
RawNames == {<<"a">>, <<"A">>, <<" ", "a", " ">>, <<"b">>, <<" ">>}

\* str.casefold(), one character
casefold_char(ch) == IF ch = "A" THEN "a" ELSE ch

\* str.casefold()
casefold(value) == [k \in 1 .. Len(value) |-> casefold_char(value[k])]

RECURSIVE lstrip(_)
lstrip(value) ==
    IF value # <<>> /\ Head(value) = " " THEN lstrip(Tail(value)) ELSE value

RECURSIVE rstrip(_)
rstrip(value) ==
    IF value # <<>> /\ value[Len(value)] = " "
    THEN rstrip(SubSeq(value, 1, Len(value) - 1))
    ELSE value

\* str.strip()
strip(value) == rstrip(lstrip(value))

\* utils.trim: s.strip(), None when nothing is left
trim(value) == IF value = NoName THEN NoName ELSE strip(value)

\* utils.trim_casefold: trim(s.casefold())
trim_casefold(value) == IF value = NoName THEN NoName ELSE trim(casefold(value))

\* _parse_str("username", trim=True, casefold=True).apply
parse_str_username(value) ==
    LET trimmed == IF value # NoName THEN trim(value) ELSE value
    IN  IF trimmed # NoName THEN casefold(trimmed) ELSE trimmed

\* user.check(): the validators run again; username: str may not be None.
check_ok(user) == parse_str_username(user.username) # NoName

check(user) == [user EXCEPT !.username = parse_str_username(user.username)]

(***************************************************************************)
(* ModelDatabaseType (model_database.py) and DataServiceUser.save_user     *)
(* (data_service.py).                                                      *)
(***************************************************************************)
\* dict.get(id): the position of the stored object, 0 for None
IndexOfId(users, i) ==
    IF \E k \in 1 .. Len(users) : users[k].id = i
    THEN CHOOSE k \in 1 .. Len(users) : users[k].id = i
    ELSE 0

users_get(users, i) == IF IndexOfId(users, i) = 0 THEN NoUser ELSE users[IndexOfId(users, i)]

\* first_or_none(values, predicate); predicate[k] is predicate(values[k])
first_or_none(values, predicate) ==
    IF \E k \in 1 .. Len(values) : predicate[k]
    THEN values[CHOOSE k \in 1 .. Len(values) :
                    predicate[k] /\ \A j \in 1 .. k - 1 : ~predicate[j]]
    ELSE NoUser

\* The ValueError save_user_check_system_user raises, "none" when it returns.
save_user_check_system_user(user, users) ==
    LET user_existing == users_get(users, user.id)
        user_system == first_or_none(users, [k \in 1 .. Len(users) |-> users[k].is_system])
    IN  IF user_system = NoUser THEN "none"
        ELSE IF user_existing = NoUser
        THEN (IF user.is_system THEN "CannotCreateSystemUser" ELSE "none")
        ELSE IF user.id = user_system.id
        THEN (IF ~user.is_system THEN "CannotDemoteSystemUser" ELSE "none")
        ELSE (IF user.is_system THEN "CannotPromoteUser" ELSE "none")

\* A mutant of save_user_check_duplicate_username: only new users are checked.
save_user_check_duplicate_new_only(user, users) ==
    LET user_existing == users_get(users, user.id)
        user_username == first_or_none(users,
                             [k \in 1 .. Len(users) |-> users[k].username = user.username])
    IN  IF user_username = NoUser THEN "none"
        ELSE IF user_existing = NoUser THEN "DuplicateUsernameCreate"
        ELSE "none"

\* The ValueError save_user_check_duplicate_username raises, "none" when it returns.
save_user_check_duplicate_username(user, users) ==
    LET user_existing == users_get(users, user.id)
        user_username == first_or_none(users,
                             [k \in 1 .. Len(users) |-> users[k].username = user.username])
    IN  IF user_username = NoUser THEN "none"
        ELSE IF user_existing = NoUser THEN "DuplicateUsernameCreate"
        ELSE IF user.id # user_username.id THEN "DuplicateUsernameUpdate"
        ELSE "none"

\* ModelDatabaseType.save under its lock; ver_new is what uuid.uuid4() returns.
db_save(data, obj, ver_new) ==
    LET k == IndexOfId(data, obj.id)
        stored == [obj EXCEPT !.ver = ver_new]
    IN  IF k # 0 /\ data[k].ver # obj.ver
        THEN [ok |-> FALSE, err |-> "Concurrency", data |-> data]
        ELSE [ok |-> TRUE, err |-> "none",
              data |-> IF k # 0 THEN [data EXCEPT ![k] = stored] ELSE Append(data, stored)]

\* ModelDatabaseType.get_all under its lock: copies, in insertion order.
get_all(data) == data

MaxUsers == 2

UserIds == 1 .. MaxUsers

\* Field(default_factory=uuid4) of a User built by the caller: no stored ver.
DefaultVer == 0

\* uuid.uuid4(): a ver that no stored user and no call under way carries.
uuid4 ==
    LET used == {db_users[k].ver : k \in 1 .. Len(db_users)}
                    \cup {thr[t].user.ver : t \in Threads}
    IN  CHOOSE v \in 1 .. (MaxUsers + Cardinality(Threads) + 1) :
            v \notin used /\ \A w \in 1 .. v - 1 : w \in used

\* The users a caller may pass: one it built, or one it got from get_users
\* (or saved before) and changed.
UsersToSave(names) ==
    {UserOf(i, v, n, sys) :
        i \in UserIds,
        v \in {DefaultVer} \cup {db_users[k].ver : k \in 1 .. Len(db_users)},
        n \in names, sys \in BOOLEAN}

\* save_user up to and including users = db.get_all()
SaveUserRead(t, user) ==
    /\ thr[t].pc = "idle"
    /\ (user.ver # DefaultVer) => users_get(db_users, user.id).ver = user.ver
    /\ thr' = [thr EXCEPT ![t] =
                  IF check_ok(user)
                  THEN ThreadAt("read", user, check(user), get_all(db_users), FALSE, "none", <<>>)
                  ELSE ThreadAt("done", user, user, <<>>, FALSE, "Validation", db_users)]
    /\ UNCHANGED db_users

\* save_user from the two checks to db.save(user)
SaveUserWrite(t) ==
    LET arg == thr[t].arg
        user == thr[t].user
        users == thr[t].users
        e1 == save_user_check_system_user(user, users)
        e2 == save_user_check_duplicate_username(user, users)
        r == db_save(db_users, user, uuid4)
    IN  /\ thr[t].pc = "read"
        /\ IF e1 # "none"
           THEN thr' = [thr EXCEPT ![t] = ThreadAt("done", arg, user, users, FALSE, e1, db_users)]
                /\ UNCHANGED db_users
           ELSE IF e2 # "none"
           THEN thr' = [thr EXCEPT ![t] = ThreadAt("done", arg, user, users, FALSE, e2, db_users)]
                /\ UNCHANGED db_users
           ELSE /\ thr' = [thr EXCEPT ![t] = ThreadAt("done", arg, user, users, r.ok, r.err, db_users)]
                /\ db_users' = r.data

\* save_user returns or raises
SaveUserReturn(t) ==
    /\ thr[t].pc = "done"
    /\ thr' = [thr EXCEPT ![t] = IdleThread]
    /\ UNCHANGED db_users

UsrInit ==
    /\ col_id_type = "INT"
    /\ tbl = EmptyTable
    /\ last = NoCall
    /\ lastVer = [i \in Ids |-> NoVer]
    /\ CasNone
    /\ checked = NoCheck
    /\ UsrNone
    /\ ExeNone
    /\ ExtNone

notUsrVars == <<rowVars, lastVer, casVars, checked, exeVars, extVars>>

\* The usernames the racing threads pass.
ConcNames == {<<"a">>, <<"b">>}

\* The stores a race can start from: what calls made one after another leave
\* behind (distinct ids, distinct usernames, at most one system user; the
\* k-th stored user carries ver k).
ConcStores ==
    {data \in UNION {[1 .. n -> {UserOf(i, v, n2, sys) :
                                    i \in UserIds, v \in 1 .. MaxUsers,
                                    n2 \in ConcNames, sys \in BOOLEAN}] : n \in 0 .. MaxUsers} :
        /\ \A k \in 1 .. Len(data) : data[k].ver = k
        /\ \A j, k \in 1 .. Len(data) :
              j # k => (data[j].id # data[k].id /\ data[j].username # data[k].username)
        /\ Cardinality({k \in 1 .. Len(data) : data[k].is_system}) <= 1}

ConcInit ==
    /\ col_id_type = "INT"
    /\ tbl = EmptyTable
    /\ last = NoCall
    /\ lastVer = [i \in Ids |-> NoVer]
    /\ CasNone
    /\ checked = NoCheck
    /\ db_users \in ConcStores
    /\ thr = [t \in Threads |-> IdleThread]
    /\ ExeNone
    /\ ExtNone

\* Each thread calls save_user once, whenever it likes.
UsrNext ==
    \/ \E t \in Threads : \E user \in UsersToSave(ConcNames) :
          SaveUserRead(t, user) /\ UNCHANGED notUsrVars
    \/ \E t \in Threads : SaveUserWrite(t) /\ UNCHANGED notUsrVars

SpecUsr == ConcInit /\ [][UsrNext]_vars

\* The calls of save_user are made one after another.
NoneInSaveUser == \A t \in Threads : thr[t].pc = "idle"

UsrSeqNext ==
    \/ NoneInSaveUser /\ \E t \in Threads : \E user \in UsersToSave(RawNames) :
          SaveUserRead(t, user) /\ UNCHANGED notUsrVars
    \/ \E t \in Threads : SaveUserWrite(t) /\ UNCHANGED notUsrVars
    \/ \E t \in Threads : SaveUserReturn(t) /\ UNCHANGED notUsrVars

SpecUsrSeq == UsrInit /\ [][UsrSeqNext]_vars

SystemUsers == {k \in 1 .. Len(db_users) : db_users[k].is_system}

\* C9: at most one stored user has is_system = true, whatever the
\* interleaving of concurrent save_user calls.
C9_AtMostOneSystemUser == Cardinality(SystemUsers) <= 1

\* C10: save_user fails and leaves the store as it was when the casefolded,
\* trimmed username of its user is that of a different stored user, for a new
\* user and for a stored one; so no two stored users share a username when
\* the calls are made one after another.
C10_DuplicateUsernameRejected ==
    /\ \A t \in Threads :
          (thr[t].pc = "done"
             /\ \E k \in 1 .. Len(thr[t].pre) :
                   /\ thr[t].pre[k].id # thr[t].arg.id
                   /\ trim_casefold(thr[t].pre[k].username)
                          = trim_casefold(thr[t].arg.username))
          => (~thr[t].ok /\ thr[t].err # "none" /\ db_users = thr[t].pre)
    /\ \A j, k \in 1 .. Len(db_users) :
          j # k => casefold(db_users[j].username) # casefold(db_users[k].username)

C10_Witness ==
    \E t \in Threads :
        /\ thr[t].pc = "done" /\ ~thr[t].ok
        /\ thr[t].err = "DuplicateUsernameUpdate"
        /\ thr[t].arg.username = <<"A">>
        /\ Len(db_users) = 2

(***************************************************************************)
(* Execution core: trigger, queue, lease, run, cancel, heartbeat and       *)
(* recovery.  The records are those of database_object3.py and model.py;   *)
(* the loops that drive them are modelled from the design (sections 4.6 to *)
(* 4.8): every write of an Execution is an update under matching           *)
(* (id, ver), every recovery is one transaction.                           *)
(***************************************************************************)
\* A mutant of Execution_create: the new Execution is already marked queued.
Execution_create_queued ==
    ExecutionOf(EXECUTION_STATE_QUEUED, ROW_VERSION_DEFAULT, NoTask, Null, Null, Null, Null)

\* Execution.create(...), inserted: ver is the ver of a new row.
Execution_create ==
    ExecutionOf(EXECUTION_STATE_TRIGGERED, ROW_VERSION_DEFAULT, NoTask, Null, Null, Null, Null)

TerminalStates ==
    {EXECUTION_STATE_COMPLETED, EXECUTION_STATE_CANCELLED, EXECUTION_STATE_ERROR}

\* A mutant of Matching: the update of an Execution looks at the id only.
Matching_id_only(e, ver) == executions[e].state # "none"

\* The Execution is stored under (e, ver): an update WHERE id = e AND ver = ver hits it.
Matching(e, ver) == executions[e].state # "none" /\ executions[e].ver = ver

\* The Execution after an update of the given fields.
Written(e, fields) ==
    [k \in DOMAIN executions[e] |->
        IF k = "ver" THEN executions[e].ver + ROW_VERSION_STEP
        ELSE IF k \in DOMAIN fields THEN fields[k]
        ELSE executions[e][k]]

\* The Scheduler or a manual trigger creates an Execution, stores and enqueues it.
Trigger(e) ==
    /\ executions[e].state = "none"
    /\ Len(queue) < QueueCap
    /\ executions' = [executions EXCEPT ![e] = Execution_create]
    /\ queue' = Append(queue, e)
    /\ UNCHANGED <<worker_rows, worker, cancellations, invoked>>

\* A starting server rebuilds its queue from the Executions that are
\* triggered and held by no Worker Thread, or by one that was reclaimed.
Rescan(e) ==
    /\ executions[e].state = EXECUTION_STATE_TRIGGERED
    /\ IF executions[e].execution_server_thread_id = Null THEN TRUE
       ELSE ~worker_rows[executions[e].execution_server_thread_id].exists
    /\ Len(queue) < QueueCap
    /\ queue' = Append(queue, e)
    /\ UNCHANGED <<executions, worker_rows, worker, cancellations, invoked>>

\* cancelExecution: a CancellationEvent for the Execution is stored.
Cancel(e) ==
    /\ executions[e].state # "none"
    /\ e \notin cancellations
    /\ cancellations' = cancellations \cup {e}
    /\ UNCHANGED <<executions, queue, worker_rows, worker, invoked>>

\* The Worker takes the next id off the queue and reads the Execution; it goes
\* on to lease it when it is waiting and nobody holds it.
Pop(w) ==
    LET e == Head(queue)
        waiting == /\ executions[e].state \in {EXECUTION_STATE_TRIGGERED, EXECUTION_STATE_QUEUED}
                   /\ executions[e].execution_server_thread_id = Null
    IN  /\ worker[w].pc = "poll"
        /\ queue # <<>>
        /\ queue' = Tail(queue)
        /\ worker' = [worker EXCEPT ![w] =
                         IF waiting THEN WorkerAt("lease", e, executions[e].ver) ELSE @]
        /\ UNCHANGED <<executions, worker_rows, cancellations, invoked>>

\* The Worker's update of its Execution under (id, ver); when no row matches
\* it lets go of the Execution (position lost), else it moves on (position won).
WorkerWrites(w, fields, won, lost) ==
    LET e == worker[w].execution_id
    IN  IF Matching(e, worker[w].ver)
        THEN /\ executions' = [executions EXCEPT ![e] = Written(e, fields)]
             /\ worker' = [worker EXCEPT ![w] = WorkerAt(won, e, worker[w].ver + ROW_VERSION_STEP)]
        ELSE /\ UNCHANGED executions
             /\ worker' = [worker EXCEPT ![w] = WorkerAt(lost, e, worker[w].ver)]

\* A mutant of Invoke: the Worker invokes the handler although its update
\* matched no row.
Invoke_unmatched(w, step) ==
    LET e == worker[w].execution_id
    IN  [invoked EXCEPT ![e] = Append(@, [worker |-> w, step |-> step])]

\* The Worker invokes the handler of the Task it has just made the executing
\* one; a Worker whose update matched no row has let go and invokes nothing.
Invoke(w, step) ==
    LET e == worker[w].execution_id
    IN  IF Matching(e, worker[w].ver)
        THEN [invoked EXCEPT ![e] = Append(@, [worker |-> w, step |-> step])]
        ELSE invoked

\* The lease: state = QUEUED, workerThreadId = self, under (id, ver).
Lease(w) ==
    /\ worker[w].pc = "lease"
    /\ WorkerWrites(w, [state |-> EXECUTION_STATE_QUEUED, execution_server_thread_id |-> w],
                    "bind", "forget")
    /\ UNCHANGED <<queue, worker_rows, cancellations, invoked>>

\* The loser of the race goes back to the queue.
Forget(w) ==
    /\ worker[w].pc = "forget"
    /\ worker' = [worker EXCEPT ![w] = WorkerAt("poll", NoId, NoVer)]
    /\ UNCHANGED <<executions, queue, worker_rows, cancellations, invoked>>

\* The Worker records the lease in its own row; a reclaimed Worker has no row
\* left and stops.
Bind(w) ==
    /\ worker[w].pc = "bind"
    /\ IF worker_rows[w].exists
       THEN /\ worker_rows' = [worker_rows EXCEPT ![w].execution_id = worker[w].execution_id]
            /\ worker' = [worker EXCEPT ![w].pc = "start"]
       ELSE /\ UNCHANGED worker_rows
            /\ worker' = [worker EXCEPT ![w] = WorkerAt("stopped", NoId, NoVer)]
    /\ UNCHANGED <<executions, queue, cancellations, invoked>>

\* STARTED: startedOn = now, the first Task is the executing one.
Start(w) ==
    /\ worker[w].pc = "start"
    /\ WorkerWrites(w, [state |-> EXECUTION_STATE_STARTED, started_on |-> "now",
                        executing_task_id |-> 1], "run", "release")
    /\ invoked' = Invoke(w, 1)
    /\ UNCHANGED <<queue, worker_rows, cancellations>>

\* Between tasks: a CancellationEvent for the Execution ends it.
StepCancelled(w) ==
    /\ worker[w].pc = "run"
    /\ worker[w].execution_id \in cancellations
    /\ WorkerWrites(w, [state |-> EXECUTION_STATE_CANCELLED, cancellation_event_id |-> "event",
                        completed_on |-> "now"], "release", "release")
    /\ UNCHANGED <<queue, worker_rows, cancellations, invoked>>

\* A mutant of StepNext: the Worker goes on to the next Task without polling
\* for a CancellationEvent.
StepNext_unpolled(w) ==
    LET e == worker[w].execution_id
    IN  /\ worker[w].pc = "run"
        /\ executions[e].executing_task_id < MaxTasks
        /\ WorkerWrites(w, [executing_task_id |-> executions[e].executing_task_id + 1],
                        "run", "release")
        /\ invoked' = Invoke(w, executions[e].executing_task_id + 1)
        /\ UNCHANGED <<queue, worker_rows, cancellations>>

\* The executing Task succeeded and another one follows.
StepNext(w) ==
    LET e == worker[w].execution_id
    IN  /\ worker[w].pc = "run"
        /\ e \notin cancellations
        /\ executions[e].executing_task_id < MaxTasks
        /\ WorkerWrites(w, [executing_task_id |-> executions[e].executing_task_id + 1],
                        "run", "release")
        /\ invoked' = Invoke(w, executions[e].executing_task_id + 1)
        /\ UNCHANGED <<queue, worker_rows, cancellations>>

\* The last Task succeeded (COMPLETED), or the executing Task raised (ERROR).
StepFinal(w, state) ==
    LET e == worker[w].execution_id
    IN  /\ worker[w].pc = "run"
        /\ e \notin cancellations
        /\ state = EXECUTION_STATE_COMPLETED => executions[e].executing_task_id = MaxTasks
        /\ WorkerWrites(w, [state |-> state, completed_on |-> "now"], "release", "release")
        /\ UNCHANGED <<queue, worker_rows, cancellations, invoked>>

\* The Worker clears the lease in its own row and polls again.
Release(w) ==
    /\ worker[w].pc = "release"
    /\ IF worker_rows[w].exists
       THEN /\ worker_rows' = [worker_rows EXCEPT ![w].execution_id = NoId]
            /\ worker' = [worker EXCEPT ![w] = WorkerAt("poll", NoId, NoVer)]
       ELSE /\ UNCHANGED worker_rows
            /\ worker' = [worker EXCEPT ![w] = WorkerAt("stopped", NoId, NoVer)]
    /\ UNCHANGED <<executions, queue, cancellations, invoked>>

\* A mutant of Recover: the row of the WorkerThread is deleted and its
\* Execution re-enqueued, but the Execution keeps its workerThreadId.
Recover_lease_kept(w) ==
    LET e == worker_rows[w].execution_id
        reclaim == e # NoId /\ executions[e].state \notin TerminalStates
    IN  /\ worker_rows[w].exists
        /\ reclaim => Len(queue) < QueueCap
        /\ worker_rows' = [worker_rows EXCEPT ![w] = WorkerRow(FALSE, NoId)]
        /\ executions' =
              IF e = NoId THEN executions
              ELSE [executions EXCEPT ![e] =
                      Written(e, [state |-> IF executions[e].state = EXECUTION_STATE_STARTED
                                            THEN EXECUTION_STATE_QUEUED
                                            ELSE executions[e].state])]
        /\ queue' = IF reclaim THEN Append(queue, e) ELSE queue
        /\ UNCHANGED <<worker, cancellations, invoked>>

\* Recovery, one transaction: the heartbeat of the WorkerThread is found
\* older than the liveness threshold (the thread may have died or may only be
\* slow); its row is deleted, the Execution it leased loses its
\* workerThreadId, goes from STARTED back to QUEUED, and is enqueued again.
Recover(w) ==
    LET e == worker_rows[w].execution_id
        reclaim == e # NoId /\ executions[e].state \notin TerminalStates
    IN  /\ worker_rows[w].exists
        /\ reclaim => Len(queue) < QueueCap
        /\ worker_rows' = [worker_rows EXCEPT ![w] = WorkerRow(FALSE, NoId)]
        /\ executions' =
              IF e = NoId THEN executions
              ELSE [executions EXCEPT ![e] =
                      Written(e, [execution_server_thread_id |-> Null,
                                  state |-> IF executions[e].state = EXECUTION_STATE_STARTED
                                            THEN EXECUTION_STATE_QUEUED
                                            ELSE executions[e].state])]
        /\ queue' = IF reclaim THEN Append(queue, e) ELSE queue
        /\ UNCHANGED <<worker, cancellations, invoked>>

ExeInit ==
    /\ col_id_type = "INT"
    /\ tbl = EmptyTable
    /\ last = NoCall
    /\ lastVer = [i \in Ids |-> NoVer]
    /\ CasNone
    /\ checked = NoCheck
    /\ UsrNone
    /\ ExeNone
    /\ ExtNone

notExeVars == <<rowVars, lastVer, casVars, checked, usrVars, extVars>>

ExeNext ==
    \/ \E e \in ExecIds : Trigger(e) /\ UNCHANGED notExeVars
    \/ \E e \in ExecIds : Rescan(e) /\ UNCHANGED notExeVars
    \/ \E e \in ExecIds : Cancel(e) /\ UNCHANGED notExeVars
    \/ \E w \in Workers : Pop(w) /\ UNCHANGED notExeVars
    \/ \E w \in Workers : Lease(w) /\ UNCHANGED notExeVars
    \/ \E w \in Workers : Forget(w) /\ UNCHANGED notExeVars
    \/ \E w \in Workers : Bind(w) /\ UNCHANGED notExeVars
    \/ \E w \in Workers : Start(w) /\ UNCHANGED notExeVars
    \/ \E w \in Workers : StepCancelled(w) /\ UNCHANGED notExeVars
    \/ \E w \in Workers : StepNext(w) /\ UNCHANGED notExeVars
    \/ \E w \in Workers :
          \E state \in {EXECUTION_STATE_COMPLETED, EXECUTION_STATE_ERROR} :
              StepFinal(w, state) /\ UNCHANGED notExeVars
    \/ \E w \in Workers : Release(w) /\ UNCHANGED notExeVars
    \/ \E w \in Workers : Recover(w) /\ UNCHANGED notExeVars

SpecExec == ExeInit /\ [][ExeNext]_vars

\* The WorkerThread rows whose executionId is e.
Holders(e) == {w \in Workers : worker_rows[w].exists /\ worker_rows[w].execution_id = e}

StateMachineEdges ==
    {<<"none", EXECUTION_STATE_TRIGGERED>>,
     <<EXECUTION_STATE_TRIGGERED, EXECUTION_STATE_QUEUED>>,
     <<EXECUTION_STATE_QUEUED, EXECUTION_STATE_STARTED>>,
     <<EXECUTION_STATE_STARTED, EXECUTION_STATE_COMPLETED>>,
     <<EXECUTION_STATE_STARTED, EXECUTION_STATE_ERROR>>,
     <<EXECUTION_STATE_STARTED, EXECUTION_STATE_CANCELLED>>}

\* The Execution e comes into being in this step, triggered and with
\* startedOn, completedOn, executingTaskId, cancellationEventId and
\* workerThreadId all null.
CreatedBlank(e) ==
    executions[e].state = "none" /\ executions'[e].state # "none" =>
        /\ executions'[e].state = EXECUTION_STATE_TRIGGERED
        /\ executions'[e].started_on = Null
        /\ executions'[e].completed_on = Null
        /\ executions'[e].executing_task_id = NoTask
        /\ executions'[e].cancellation_event_id = Null
        /\ executions'[e].execution_server_thread_id = Null

StepsInvoked(e) == [i \in 1 .. Len(invoked[e]) |-> invoked[e][i].step]

\* The steps Worker w invoked of Execution e, in the order of invocation.
StepsInvokedBy(e, w) ==
    LET own == SelectSeq(invoked[e], LAMBDA x : x.worker = w)
    IN  [i \in 1 .. Len(own) |-> own[i].step]

\* The steps 1 .. n in ascending order.
Ascending(n) == [i \in 1 .. n |-> i]

\* The Workers that have a Task of Execution e in flight.
Running(e) == {w \in Workers : worker[w].pc = "run" /\ worker[w].execution_id = e}

\* The last n invocations of Execution e are those of Worker w, steps 1 .. n.
EndsWithRunOf(e, w, n) ==
    /\ StepsInvokedBy(e, w) = Ascending(n)
    /\ Len(invoked[e]) >= n
    /\ \A i \in 1 .. n : invoked[e][Len(invoked[e]) - n + i] = [worker |-> w, step |-> i]

BetweenTasks(w, e) ==
    /\ worker[w].pc = "run"
    /\ worker[w].execution_id = e
    /\ executions[e].state = EXECUTION_STATE_STARTED
    /\ executions[e].execution_server_thread_id = w

get_by_id(data, i) == users_get(data, i)

\* DataServiceBase.delete_check_not_exist: TRUE when there is nothing to delete.
delete_check_not_exist(item, item_existing) == item_existing = NoUser

\* A mutant of delete_user_check_system_user: the comparison of ids is negated.
delete_user_check_system_user_other(user, users) ==
    LET user_system == first_or_none(users, [k \in 1 .. Len(users) |-> users[k].is_system])
    IN  IF user_system # NoUser /\ user_system.id # user.id
        THEN "CannotDeleteSystemUser"
        ELSE "none"

\* The ValueError delete_user_check_system_user raises, "none" when it returns.
delete_user_check_system_user(user, users) ==
    LET user_system == first_or_none(users, [k \in 1 .. Len(users) |-> users[k].is_system])
    IN  IF user_system # NoUser /\ user_system.id = user.id
        THEN "CannotDeleteSystemUser"
        ELSE "none"

\* dict.pop(key) at position k
RemoveAt(data, k) == SubSeq(data, 1, k - 1) \o SubSeq(data, k + 1, Len(data))

\* ModelDatabaseType.delete under its lock: the ver check applies to a stored
\* object only, and db.pop(obj.id) raises KeyError when the id is not stored.
db_delete(data, obj) ==
    LET k == IndexOfId(data, obj.id)
    IN  IF k # 0 /\ data[k].ver # obj.ver
        THEN [ok |-> FALSE, err |-> "Concurrency", data |-> data]
        ELSE IF k = 0
        THEN [ok |-> FALSE, err |-> "KeyError", data |-> data]
        ELSE [ok |-> TRUE, err |-> "none", data |-> RemoveAt(data, k)]

\* delete_user up to and including delete_check_not_exist
DeleteUserExists(t, user) ==
    /\ thr[t].pc = "idle"
    /\ thr' = [thr EXCEPT ![t] =
                  IF ~check_ok(user)
                  THEN ThreadAt("del_done", user, user, <<>>, FALSE, "Validation", db_users)
                  ELSE IF delete_check_not_exist(check(user), get_by_id(db_users, user.id))
                  THEN ThreadAt("del_done", user, check(user), <<>>, TRUE, "none", db_users)
                  ELSE ThreadAt("del_found", user, check(user), <<>>, FALSE, "none", <<>>)]
    /\ UNCHANGED db_users

\* users = db.get_all()
DeleteUserRead(t) ==
    /\ thr[t].pc = "del_found"
    /\ thr' = [thr EXCEPT ![t] =
                  ThreadAt("del_read", thr[t].arg, thr[t].user, get_all(db_users), FALSE, "none", <<>>)]
    /\ UNCHANGED db_users

\* delete_user from delete_user_check_system_user to db.delete(user)
DeleteUserWrite(t) ==
    LET arg == thr[t].arg
        user == thr[t].user
        users == thr[t].users
        e == delete_user_check_system_user(user, users)
        r == db_delete(db_users, user)
    IN  /\ thr[t].pc = "del_read"
        /\ IF e # "none"
           THEN thr' = [thr EXCEPT ![t] = ThreadAt("del_done", arg, user, users, FALSE, e, db_users)]
                /\ UNCHANGED db_users
           ELSE /\ thr' = [thr EXCEPT ![t] = ThreadAt("del_done", arg, user, users, r.ok, r.err, db_users)]
                /\ db_users' = r.data

\* delete_user returns or raises
DeleteUserReturn(t) ==
    /\ thr[t].pc = "del_done"
    /\ thr' = [thr EXCEPT ![t] = IdleThread]
    /\ UNCHANGED db_users

\* save_user and delete_user, the calls made one after another.
UsrDelNext ==
    \/ NoneInSaveUser /\ \E t \in Threads : \E user \in UsersToSave(RawNames) :
          SaveUserRead(t, user) /\ UNCHANGED notUsrVars
    \/ \E t \in Threads : SaveUserWrite(t) /\ UNCHANGED notUsrVars
    \/ \E t \in Threads : SaveUserReturn(t) /\ UNCHANGED notUsrVars
    \/ NoneInSaveUser /\ \E t \in Threads : \E user \in UsersToSave(RawNames) :
          DeleteUserExists(t, user) /\ UNCHANGED notUsrVars
    \/ \E t \in Threads : DeleteUserRead(t) /\ UNCHANGED notUsrVars
    \/ \E t \in Threads : DeleteUserWrite(t) /\ UNCHANGED notUsrVars
    \/ \E t \in Threads : DeleteUserReturn(t) /\ UNCHANGED notUsrVars

SpecUsrDel == UsrInit /\ [][UsrDelNext]_vars

\* The call of thread t is about the user that was stored as system user
\* when its last step began.
OnSystemUser(t) ==
    \E k \in 1 .. Len(thr[t].pre) :
        thr[t].pre[k].is_system /\ thr[t].pre[k].id = thr[t].arg.id

\* C11: a stored system user stays stored with is_system = true over every
\* step of save_user and delete_user; delete_user on it ends in an error and
\* removes nothing; save_user that clears is_system on it ends in an error
\* and changes nothing.
C11_SystemUserStays ==
    [][/\ \A k \in 1 .. Len(db_users) :
             db_users[k].is_system
                => \E j \in 1 .. Len(db_users') :
                      db_users'[j].id = db_users[k].id /\ db_users'[j].is_system
       /\ \A t \in Threads :
             (thr'[t].pc = "del_done" /\ thr'[t].err # "Validation"
                 /\ \E k \in 1 .. Len(thr'[t].pre) :
                       thr'[t].pre[k].is_system /\ thr'[t].pre[k].id = thr'[t].arg.id)
             => (~thr'[t].ok /\ thr'[t].err = "CannotDeleteSystemUser"
                   /\ db_users' = thr'[t].pre)
       /\ \A t \in Threads :
             (thr'[t].pc = "done" /\ ~thr'[t].arg.is_system
                 /\ \E k \in 1 .. Len(thr'[t].pre) :
                       thr'[t].pre[k].is_system /\ thr'[t].pre[k].id = thr'[t].arg.id)
             => (~thr'[t].ok /\ thr'[t].err # "none" /\ db_users' = thr'[t].pre)]_vars

C11_Witness ==
    \E t \in Threads :
        /\ thr[t].pc = "del_done"
        /\ thr[t].err = "CannotDeleteSystemUser"
        /\ OnSystemUser(t)
        /\ Len(db_users) = 2
        /\ thr[t].arg.ver = users_get(db_users, thr[t].arg.id).ver


(***************************************************************************)
(* SerializableClassesCache (database_object.py): the registry of          *)
(* Serializable classes by name.                                           *)
(***************************************************************************)
\* class_fullname: ".".join of module and qualified name, the module left
\* out when there is none.
class_fullname(cls) ==
    IF cls.module = <<>> THEN cls.name ELSE cls.module \o <<".">> \o cls.name

\* dict: the position of key k, 0 when it is missing
cache_index(c, k) ==
    IF \E i \in 1 .. Len(c) : c[i][1] = k
    THEN CHOOSE i \in 1 .. Len(c) : c[i][1] = k
    ELSE 0

\* self.cache.get(name)
cache_get(c, k) == IF cache_index(c, k) = 0 THEN NoClass ELSE c[cache_index(c, k)][2]

\* self.cache[name] = cls: a new key goes last, a known key keeps its place
cache_set(c, k, v) ==
    IF cache_index(c, k) = 0 THEN Append(c, <<k, v>>)
    ELSE [c EXCEPT ![cache_index(c, k)] = <<k, v>>]

\* add_class(cls, name); name = NoName: the full name, and only when it is free.
add_class(c, cls, name) ==
    IF name = NoName
    THEN (IF cache_index(c, class_fullname(cls)) = 0
          THEN cache_set(c, class_fullname(cls), cls)
          ELSE c)
    ELSE cache_set(c, name, cls)

\* serializable_subclasses_rescan; order: the classes as the set of
\* subclasses happens to iterate.
RECURSIVE serializable_subclasses_rescan(_, _)
serializable_subclasses_rescan(c, order) ==
    IF order = <<>> THEN c
    ELSE serializable_subclasses_rescan(add_class(c, Head(order), NoName), Tail(order))

\* k.split(".").pop()
RECURSIVE last_segment(_)
last_segment(name) ==
    IF \E i \in 1 .. Len(name) : name[i] = "."
    THEN last_segment(Tail(name))
    ELSE name

\* The first position where hits is TRUE, 0 when there is none.
first_index(hits) ==
    IF \E i \in 1 .. Len(hits) : hits[i]
    THEN CHOOSE i \in 1 .. Len(hits) : hits[i] /\ \A j \in 1 .. i - 1 : ~hits[j]
    ELSE 0

Found(cls, c, step) == [cls |-> cls, cache |-> c, step |-> step]

\* get_class(name)
get_class(c, order, name) ==
    IF cache_get(c, name) # NoClass THEN Found(cache_get(c, name), c, "exact")
    ELSE
      LET items == serializable_subclasses_rescan(c, order)
          name_casefold == casefold(name)
          name_casefold_last == last_segment(name_casefold)
          i4 == first_index([i \in 1 .. Len(items) |-> casefold(items[i][1]) = name_casefold])
          i5 == first_index([i \in 1 .. Len(items) |-> last_segment(items[i][1]) = name])
          i6 == first_index([i \in 1 .. Len(items) |->
                                casefold(last_segment(items[i][1])) = name_casefold_last])
      IN  IF cache_get(items, name) # NoClass
          THEN Found(cache_get(items, name), items, "rescan")
          ELSE IF i4 # 0
          THEN Found(items[i4][2],
                     add_class(items, items[i4][2], casefold(items[i4][1])), "casefold")
          ELSE IF i5 # 0
          THEN Found(items[i5][2],
                     add_class(items, items[i5][2], last_segment(items[i5][1])), "last")
          ELSE IF i6 # 0
          THEN Found(items[i6][2],
                     add_class(items, items[i6][2], casefold(last_segment(items[i6][1]))),
                     "casefold_last")
          ELSE Found(NoClass, items, "TypeError")

\* The orders in which a set of classes can iterate.
Orders(S) ==
    {o \in [1 .. Cardinality(S) -> S] : \A i, j \in 1 .. Cardinality(S) : i # j => o[i] # o[j]}


(***************************************************************************)
(* The codec of database_object.py: SerializableWriter, SerializableReader,*)
(* the JSON text of utils.json2str / json2obj, and DatabaseObject over the *)
(* row store.                                                              *)
(***************************************************************************)
\* The strings and ints a field or a tag may hold: empty, plain, padded.
FieldStrings == {<<>>, <<"a">>, <<" ", "a">>}

FieldInts == {7}

JsonValues == {PyNone} \cup {PyStr(s) : s \in FieldStrings} \cup {PyInt(n) : n \in FieldInts}

\* The keys of the dict a TestObjectPerson is written to, and of the tag dict.
ObjKeys == <<"firstName", "age">>

TagKeySeq == <<"k">>

RECURSIVE Join(_)
Join(chars) == IF chars = <<>> THEN "" ELSE Head(chars) \o Join(Tail(chars))

\* json.dumps of one value
JsonValue(v) == IF v.kind = "str" THEN "\"" \o Join(v.s) \o "\"" ELSE ToString(v.n)

\* json.dumps of a dict; a key without a value is not in the dict.
RECURSIVE JsonMembers(_, _)
JsonMembers(dic, keys) ==
    IF keys = <<>> THEN ""
    ELSE (IF dic[Head(keys)] = PyNone THEN ""
          ELSE "\"" \o Head(keys) \o "\": " \o JsonValue(dic[Head(keys)]) \o ", ")
         \o JsonMembers(dic, Tail(keys))

\* utils.json2str(dict)
json2str(dic, keys) == "{" \o JsonMembers(dic, keys) \o "}"

\* utils.json2obj(text): the dict this text is the JSON of
json2obj(text, keys) ==
    CHOOSE dic \in [{keys[i] : i \in 1 .. Len(keys)} -> JsonValues] : json2str(dic, keys) = text

\* utils.str2camel on the field names
str2camel(key) == IF key = "first_name" THEN "firstName" ELSE key

\* utils.str2snake on the field names
str2snake(key) == IF key = "firstName" THEN "first_name" ELSE key

\* SerializableWriter.put: None is not written, a key with "_" is camel-cased.
put(dic, key, value) ==
    IF value = PyNone THEN dic
    ELSE [dic EXCEPT ![IF key = "first_name" THEN str2camel(key) ELSE key] = value]

\* TestObjectPerson.serialize_write over an empty SerializableWriter
serialize_write(obj) ==
    put(put([k \in {"firstName", "age"} |-> PyNone], "first_name", obj.first_name),
        "age", obj.age)

\* SerializableBase.serialize
serialize(obj) == json2str(serialize_write(obj), ObjKeys)

dict_get(dic, key) == IF key \in DOMAIN dic THEN dic[key] ELSE PyNone

\* SerializableReader._get_raw: the key as given, camel-cased, snake-cased
get_raw(dic, key) ==
    IF dict_get(dic, key) # PyNone THEN dict_get(dic, key)
    ELSE IF dict_get(dic, str2camel(key)) # PyNone THEN dict_get(dic, str2camel(key))
    ELSE dict_get(dic, str2snake(key))

\* str(v) of a JSON value
str_of(v) == IF v.kind = "int" THEN <<ToString(v.n)>> ELSE v.s

\* A mutant of get_str: the value is not trimmed.
get_str_untrimmed(dic, key) ==
    IF get_raw(dic, key) = PyNone THEN PyNone
    ELSE PyStr(str_of(get_raw(dic, key)))

\* SerializableReader._get_str with is_trimmed=True, the default
get_str(dic, key) ==
    LET v == get_raw(dic, key)
    IN  IF v = PyNone THEN PyNone
        ELSE IF trim(str_of(v)) = NoName THEN PyNone
        ELSE PyStr(trim(str_of(v)))

\* utils.int_parse_none on what _get_str returns
int_parse_none(value) ==
    IF value = PyNone THEN PyNone
    ELSE IF trim(value.s) = NoName THEN PyNone
    ELSE PyInt(CHOOSE n \in 0 .. 9 : <<ToString(n)>> = trim(value.s))

\* TestObjectPerson.deserialize_read: r.get(f.name, f.type) per field
deserialize(cls, text) ==
    LET dic == json2obj(text, ObjKeys)
    IN  Person(cls, get_str(dic, "first_name"), int_parse_none(get_str(dic, "age")))

\* _serialize_obj
serialize_obj(obj) == <<class_fullname(obj.cls), serialize(obj)>>

\* Variant: the tags are not written.
serialize_tags_dropped(tags) == json2str(NoTags, TagKeySeq)

\* _serialize_tags / _deserialize_tags
serialize_tags(tags) == json2str(tags, TagKeySeq)

deserialize_tags(dmedium) == IF dmedium = Null THEN NoTags ELSE json2obj(dmedium, TagKeySeq)

\* Table.save: insert for a row without ver, update otherwise
table_save(id_type, t, row, gen) ==
    IF row.ver = NoVer THEN insert(id_type, t, <<row>>, gen)
    ELSE update(t, <<row>>, TRUE)

\* The classes of the test objects and the objects and tag dicts a caller builds.
PersonClasses == {ClassOf(<<"t">>, <<"A">>), ClassOf(<<"t">>, <<"b">>)}

Persons ==
    {Person(c, f, a) : c \in PersonClasses,
                       f \in {PyNone} \cup {PyStr(x) : x \in FieldStrings},
                       a \in {PyNone} \cup {PyInt(n) : n \in FieldInts}}

TagMaps == [TagKeys -> {PyNone} \cup {PyStr(x) : x \in FieldStrings \ {<<>>}}]

\* DatabaseObject.create_from_serializable(db, obj, **kwargs): a kwarg that is
\* None is not a tag.
CreateFromSerializable(obj, kwargs) ==
    /\ dbo = NoDatabaseObject
    /\ dbo' = DatabaseObject(NoId, NoVer, kwargs, obj, FALSE, "none")
    /\ got' = <<>>
    /\ UNCHANGED <<col_id_type, tbl, last>>

\* DatabaseObject.obj = value
SetObj(obj) ==
    /\ dbo.obj # NoObject /\ obj # dbo.obj
    /\ dbo' = [dbo EXCEPT !.obj = obj, !.saved = FALSE, !.err = "none"]
    /\ got' = <<>>
    /\ UNCHANGED <<col_id_type, tbl, last>>

\* DatabaseObject.tags[k] = v, del DatabaseObject.tags[k]
SetTags(tags) ==
    /\ dbo.obj # NoObject /\ tags # dbo.tags
    /\ dbo' = [dbo EXCEPT !.tags = tags, !.saved = FALSE, !.err = "none"]
    /\ got' = <<>>
    /\ UNCHANGED <<col_id_type, tbl, last>>

\* DatabaseObject.save()
Save ==
    LET data == serialize_obj(dbo.obj)
        row == Row(dbo.id, dbo.ver, data[1], serialize_tags(dbo.tags), data[2])
    IN  /\ dbo.obj # NoObject
        /\ dbo.ver < MaxVer   \* the model stops at ver MaxVer
        /\ \E gen \in (IF col_id_type = "UUID" /\ row.ver = NoVer
                       THEN UuidGens(tbl, <<row>>) ELSE {<<>>}) :
              LET r == table_save(col_id_type, tbl, row, gen)
              IN  /\ tbl' = r.tbl
                  /\ dbo' = IF r.ok
                            THEN [dbo EXCEPT !.id = r.out[1].id, !.ver = r.out[1].ver,
                                             !.saved = TRUE, !.err = "none"]
                            ELSE [dbo EXCEPT !.err = r.err]
        /\ got' = <<>>
        /\ UNCHANGED <<col_id_type, last>>

\* DatabaseObject.create_from_row(db, row) and its obj property
create_from_row(c, order, id, stored) ==
    LET r == get_class(c, order, stored.dsmall)
    IN  DatabaseObject(id, stored.ver, deserialize_tags(stored.dmedium),
                       IF r.cls = NoClass THEN NoObject ELSE deserialize(r.cls, stored.dlarge),
                       TRUE, IF r.cls = NoClass THEN "TypeError" ELSE "none")

\* DatabaseObjectDatabase.get_all(), the obj of every item read
GetAll ==
    /\ dbo.saved /\ got = <<>>
    /\ \E order \in Orders(subclasses) :
          got' = [i \in StoredIds(tbl) |-> create_from_row(cache, order, i, tbl[i])]
    /\ UNCHANGED <<col_id_type, tbl, last, dbo>>

\* Variant: the delete is sent with a ver the row does not have.
DeleteRow_stale(i) ==
    LET r == delete(tbl, <<Row(i, tbl[i].ver + 1, Null, Null, Null)>>)
    IN  /\ Stored(tbl, i)
        /\ tbl' = r.tbl
        /\ dbo' = IF i = dbo.id THEN NoDatabaseObject ELSE dbo
        /\ got' = <<>>
        /\ UNCHANGED <<col_id_type, last>>

\* DatabaseObjectDatabase.table.delete([Row(id, ver)]) with the stored ver;
\* a caller that deletes the row of the object it holds drops the object.
DeleteRow(i) ==
    LET r == delete(tbl, <<Row(i, tbl[i].ver, Null, Null, Null)>>)
    IN  /\ Stored(tbl, i)
        /\ tbl' = r.tbl
        /\ dbo' = IF i = dbo.id THEN NoDatabaseObject ELSE dbo
        /\ got' = <<>>
        /\ UNCHANGED <<col_id_type, last>>

\* DatabaseObjectDatabase.get_types()
get_types(c, order, t) ==
    {get_class(c, order, type_name).cls : type_name \in select_dsmalls(t)}

\* The table before the caller's object is saved: empty, or one row of
\* another object.
CodecTables ==
    {EmptyTable,
     [EmptyTable EXCEPT ![1] =
         [ver |-> ROW_VERSION_DEFAULT,
          dsmall |-> class_fullname(ClassOf(<<"t">>, <<"b">>)),
          dmedium |-> serialize_tags(NoTags),
          dlarge |-> serialize(Person(ClassOf(<<"t">>, <<"b">>), PyStr(<<"a">>), PyNone))]]}

\* The module is imported: the registry has scanned the Serializable classes.
CodecInit ==
    /\ col_id_type \in ColumnIdType
    /\ tbl \in CodecTables
    /\ last = NoCall
    /\ lastVer = [i \in Ids |-> NoVer]
    /\ CasNone
    /\ checked = NoCheck
    /\ UsrNone
    /\ ExeNone
    /\ subclasses = PersonClasses
    /\ \E order \in Orders(PersonClasses) :
          cache = serializable_subclasses_rescan(<<>>, order)
    /\ looked = NoLookup
    /\ registered = {<<class_fullname(cls), cls>> : cls \in PersonClasses}
    /\ CodecNone
    /\ TrigNone
    /\ RecNone
    /\ TqNone
    /\ SvcNone
    /\ TagsNone
    /\ MemNone

notCodecVars == <<lastVer, casVars, checked, usrVars, exeVars, regVars, trigVars, recVars, tqVars, svcVars, tagVars, memVars>>

CodecNext ==
    \/ \E obj \in Persons, kwargs \in TagMaps :
          CreateFromSerializable(obj, kwargs) /\ UNCHANGED notCodecVars
    \/ \E obj \in Persons : SetObj(obj) /\ UNCHANGED notCodecVars
    \/ \E tags \in TagMaps : SetTags(tags) /\ UNCHANGED notCodecVars
    \/ Save /\ UNCHANGED notCodecVars
    \/ GetAll /\ UNCHANGED notCodecVars
    \/ \E i \in Ids : DeleteRow(i) /\ UNCHANGED notCodecVars

SpecCodec == CodecInit /\ [][CodecNext]_vars

\* C12: an object saved through DatabaseObject.save and read back with
\* get_all comes back with the class its dsmall names, the field values it
\* was saved with, and the id, ver and tags of the saved DatabaseObject.
C12_CodecRoundTrip ==
    (dbo.saved /\ got # <<>>)
    => /\ dbo.id \in DOMAIN got
       /\ got[dbo.id].id = dbo.id
       /\ got[dbo.id].ver = dbo.ver
       /\ got[dbo.id].tags = dbo.tags
       /\ class_fullname(got[dbo.id].obj.cls) = tbl[dbo.id].dsmall
       /\ got[dbo.id].obj.cls = dbo.obj.cls
       /\ got[dbo.id].obj.first_name = dbo.obj.first_name
       /\ got[dbo.id].obj.age = dbo.obj.age

\* What does hold: everything but a str field that is empty or padded.
C12_RoundTripOfTrimmed ==
    (dbo.saved /\ got # <<>>)
    => /\ dbo.id \in DOMAIN got
       /\ got[dbo.id].id = dbo.id
       /\ got[dbo.id].ver = dbo.ver
       /\ got[dbo.id].tags = dbo.tags
       /\ got[dbo.id].obj.cls = dbo.obj.cls
       /\ got[dbo.id].obj.age = dbo.obj.age
       /\ got[dbo.id].obj.first_name
             = (IF dbo.obj.first_name = PyNone \/ trim(dbo.obj.first_name.s) = NoName
                THEN PyNone ELSE PyStr(trim(dbo.obj.first_name.s)))


(***************************************************************************)
(* TriggerEvent (database_object3.py, model.py): create, serialize and     *)
(* deserialize.                                                            *)
(***************************************************************************)
JobRefs == {Null, "j1", "j2"}

ScheduleRefs == {Null, "s1", "s2"}

UserRefs == {Null, "u1", "u2"}

\* triggered_by_job_schedule_id is None and triggered_by_user_id is None
both_none(schedule, user) == schedule = Null /\ user = Null

\* The ValueError TriggerEvent.create raises, "none" when it returns.
TriggerEvent_create(job_id, schedule, user) ==
    IF both_none(schedule, user) THEN "BothNone" ELSE "none"

\* SerializerWriterJson.set_uuid_optional: None is not written.
set_uuid_optional(data, name, value) == IF value = Null THEN data ELSE [data EXCEPT ![name] = value]

\* SerializerReaderJson.get_uuid_optional: the UUID under the name, or None.
get_uuid_optional(data, name) == data[name]

\* TriggerEvent.serialize: the error it raises ("none" when it returns) and the row.
TriggerEvent_serialize(obj) ==
    IF both_none(obj.triggered_by_job_schedule_id, obj.triggered_by_user_id)
    THEN [err |-> "BothNone", row |-> NoTriggerRow]
    ELSE IF obj.job_id = Null
    THEN [err |-> "ParentNone", row |-> NoTriggerRow]
    ELSE [err |-> "none",
          row |-> [parent_id |-> obj.job_id,
                   data |-> set_uuid_optional(
                               set_uuid_optional(NoTriggerRow.data, "triggeredByJobScheduleId",
                                                 obj.triggered_by_job_schedule_id),
                               "triggeredByUserId", obj.triggered_by_user_id)]]

\* TriggerEvent.deserialize: the error it raises ("none" when it returns) and the object.
TriggerEvent_deserialize(row) ==
    LET o == TriggerEventOf(row.parent_id,
                            get_uuid_optional(row.data, "triggeredByJobScheduleId"),
                            get_uuid_optional(row.data, "triggeredByUserId"))
    IN  IF row.parent_id = Null THEN [err |-> "ParentNone", obj |-> NoTriggerEvent]
        ELSE IF both_none(o.triggered_by_job_schedule_id, o.triggered_by_user_id)
        THEN [err |-> "BothNone", obj |-> NoTriggerEvent]
        ELSE [err |-> "none", obj |-> o]

\* TriggerEvent.create(job_id, triggered_by_job_schedule_id, triggered_by_user_id)
TriggerCreate(job_id, schedule, user) ==
    LET e == TriggerEvent_create(job_id, schedule, user)
    IN  trg' = TriggerAt(IF e = "none" THEN TriggerEventOf(job_id, schedule, user)
                         ELSE NoTriggerEvent,
                         NoTriggerRow, "create", e)

\* model.TriggerEvent.create(job_id, triggered_schedule, triggered_by_user_id):
\* the same check on the Schedule and the user.
ModelTriggerCreate(job_id, schedule, user) ==
    LET e == IF both_none(schedule, user) THEN "BothNone" ELSE "none"
    IN  trg' = TriggerAt(IF e = "none" THEN TriggerEventOf(job_id, schedule, user)
                         ELSE NoTriggerEvent,
                         NoTriggerRow, "model_create", e)

\* TriggerEvent(...): the dataclass constructor, which checks nothing
TriggerConstruct(job_id, schedule, user) ==
    trg' = TriggerAt(TriggerEventOf(job_id, schedule, user), NoTriggerRow, "construct", "none")

\* obj.serialize(w)
TriggerSerialize ==
    /\ trg.obj # NoTriggerEvent
    /\ trg.op \in {"create", "construct", "deserialize"}
    /\ trg' = TriggerAt(trg.obj, TriggerEvent_serialize(trg.obj).row, "serialize",
                        TriggerEvent_serialize(trg.obj).err)

\* A row of type TriggerEvent is read from the table.
TriggerLoad(parent_id, schedule, user) ==
    trg' = TriggerAt(NoTriggerEvent, TriggerRow(parent_id, schedule, user), "load", "none")

\* TriggerEvent.deserialize(r)
TriggerDeserialize ==
    /\ trg.row # NoTriggerRow
    /\ trg.op \in {"serialize", "load"} /\ trg.err = "none"
    /\ trg' = TriggerAt(TriggerEvent_deserialize(trg.row).obj, trg.row, "deserialize",
                        TriggerEvent_deserialize(trg.row).err)

TrigInit ==
    /\ col_id_type = "INT"
    /\ tbl = EmptyTable
    /\ last = NoCall
    /\ lastVer = [i \in Ids |-> NoVer]
    /\ CasNone
    /\ checked = NoCheck
    /\ UsrNone
    /\ ExeNone
    /\ ExtNone

notTrigVars == <<rowVars, lastVer, casVars, checked, usrVars, exeVars, regVars, codecVars, recVars, tqVars, svcVars, tagVars, memVars>>

TrigNext ==
    \/ \E j \in JobRefs, s \in ScheduleRefs, u \in UserRefs :
          TriggerCreate(j, s, u) /\ UNCHANGED notTrigVars
    \/ \E j \in JobRefs, s \in ScheduleRefs, u \in UserRefs :
          TriggerConstruct(j, s, u) /\ UNCHANGED notTrigVars
    \/ \E j \in JobRefs, s \in ScheduleRefs, u \in UserRefs :
          ModelTriggerCreate(j, s, u) /\ UNCHANGED notTrigVars
    \/ TriggerSerialize /\ UNCHANGED notTrigVars
    \/ \E j \in JobRefs, s \in ScheduleRefs, u \in UserRefs :
          TriggerLoad(j, s, u) /\ UNCHANGED notTrigVars
    \/ TriggerDeserialize /\ UNCHANGED notTrigVars

SpecTrig == TrigInit /\ [][TrigNext]_vars

ExactlyOne(schedule, user) == (schedule = Null) # (user = Null)

\* C13: create, serialize and deserialize of a TriggerEvent succeed only
\* when exactly one of its schedule reference and its user reference is
\* non-null; both null and both non-null end in an error.
C13_TriggerEventExactlyOne ==
    /\ (trg.op \in {"create", "model_create", "serialize", "deserialize"}
          /\ trg.err = "none")
       => ExactlyOne(trg.obj.triggered_by_job_schedule_id, trg.obj.triggered_by_user_id)
    /\ (trg.op = "serialize" /\ trg.err = "none")
       => ExactlyOne(trg.row.data.triggeredByJobScheduleId, trg.row.data.triggeredByUserId)

\* What does hold: no operation succeeds on a TriggerEvent with both
\* references null.
C13_TriggerEventNotBothNull ==
    (trg.op \in {"create", "model_create", "serialize", "deserialize"} /\ trg.err = "none")
    => ~both_none(trg.obj.triggered_by_job_schedule_id, trg.obj.triggered_by_user_id)


(***************************************************************************)
(* Heartbeats and recovery of orphaned work (design, section 4.7): a       *)
(* heartbeat goes stale when its owner died or is slow, and is fresh again *)
(* when a slow owner refreshes it; a live Execution Server deletes stale   *)
(* WorkerThreads and stale ExecutionServers.  This specification follows   *)
(* the Executions of RecExecIds through the loops of the execution core.   *)
(***************************************************************************)
RecExecIds == {1}

\* ExecutionServerThread.execution_server_id: the Worker Threads of the model
\* belong to the first server; the second one hosts only its own loops.
ServerOf(w) == "s1"

\* The server has its row and a fresh heartbeat.
Live(r) == server_rows[r] /\ r \notin stale_beats

InQueue(q, e) == \E i \in 1 .. Len(q) : q[i] = e

\* The ids in ascending order.
RECURSIVE Sorted(_)
Sorted(ids) ==
    IF ids = {} THEN <<>>
    ELSE LET least == CHOOSE x \in ids : \A y \in ids : x <= y
         IN  <<least>> \o Sorted(ids \ {least})

\* The reclamation of the WorkerThreads ws in one transaction: their rows are
\* deleted, the Executions they leased lose workerThreadId, go from STARTED
\* back to QUEUED and are enqueued again.
Reclaim(ws) ==
    LET leased == {worker_rows[w].execution_id : w \in ws} \ {NoId}
        again == {e \in leased : executions[e].state \notin TerminalStates}
    IN  /\ Len(queue) + Cardinality(again) <= QueueCap
        /\ worker_rows' = [w \in Workers |->
                              IF w \in ws THEN WorkerRow(FALSE, NoId) ELSE worker_rows[w]]
        /\ executions' =
              [e \in ExecIds |->
                  IF e \in leased
                  THEN Written(e, [execution_server_thread_id |-> Null,
                                   state |-> IF executions[e].state = EXECUTION_STATE_STARTED
                                             THEN EXECUTION_STATE_QUEUED
                                             ELSE executions[e].state])
                  ELSE executions[e]]
        /\ queue' = queue \o Sorted(again)
        /\ UNCHANGED <<worker, cancellations, invoked>>

\* The heartbeat of a WorkerThread or of an ExecutionServer becomes older
\* than the threshold.  Some server stays live.
Stall(x) ==
    /\ x \notin stale_beats
    /\ IF x \in Servers
       THEN server_rows[x] /\ \E r \in Servers \ {x} : Live(r)
       ELSE worker_rows[x].exists
    /\ stale_beats' = stale_beats \cup {x}
    /\ UNCHANGED <<server_rows, exeVars>>

\* A slow owner refreshes its heartbeatOn.
Heartbeat(x) ==
    /\ x \in stale_beats
    /\ stale_beats' = stale_beats \ {x}
    /\ UNCHANGED <<server_rows, exeVars>>

\* The recovery loop of the live server r reclaims the stale WorkerThread w.
RecoverWorker(r, w) ==
    /\ Live(r)
    /\ w \in stale_beats
    /\ worker_rows[w].exists
    /\ Recover(w)
    /\ stale_beats' = stale_beats \ {w}
    /\ UNCHANGED server_rows

\* The recovery loop of the live server r deletes the stale ExecutionServer s
\* and, in the same transaction, reclaims all of its WorkerThreads.
RecoverServer(r, s) ==
    LET ws == {w \in Workers : ServerOf(w) = s /\ worker_rows[w].exists}
    IN  /\ Live(r)
        /\ s \in stale_beats
        /\ server_rows[s]
        /\ Reclaim(ws)
        /\ server_rows' = [server_rows EXCEPT ![s] = FALSE]
        /\ stale_beats' = stale_beats \ ({s} \cup ws)

RecInit ==
    /\ col_id_type = "INT"
    /\ tbl = EmptyTable
    /\ last = NoCall
    /\ lastVer = [i \in Ids |-> NoVer]
    /\ CasNone
    /\ checked = NoCheck
    /\ UsrNone
    /\ ExeNone
    /\ ExtNone

notRecVars == <<rowVars, lastVer, casVars, checked, usrVars, regVars, codecVars, trigVars, tqVars, svcVars, tagVars, memVars>>

RecNext ==
    \/ \E e \in RecExecIds : Trigger(e) /\ UNCHANGED notExeVars
    \/ \E e \in RecExecIds : Rescan(e) /\ UNCHANGED notExeVars
    \/ \E e \in RecExecIds : Cancel(e) /\ UNCHANGED notExeVars
    \/ \E w \in Workers : Pop(w) /\ UNCHANGED notExeVars
    \/ \E w \in Workers : Lease(w) /\ UNCHANGED notExeVars
    \/ \E w \in Workers : Forget(w) /\ UNCHANGED notExeVars
    \/ \E w \in Workers : Bind(w) /\ UNCHANGED notExeVars
    \/ \E w \in Workers : Start(w) /\ UNCHANGED notExeVars
    \/ \E w \in Workers : StepCancelled(w) /\ UNCHANGED notExeVars
    \/ \E w \in Workers : StepNext(w) /\ UNCHANGED notExeVars
    \/ \E w \in Workers :
          \E state \in {EXECUTION_STATE_COMPLETED, EXECUTION_STATE_ERROR} :
              StepFinal(w, state) /\ UNCHANGED notExeVars
    \/ \E w \in Workers : Release(w) /\ UNCHANGED notExeVars
    \/ \E x \in Workers \cup Servers : Stall(x) /\ UNCHANGED notRecVars
    \/ \E x \in Workers \cup Servers : Heartbeat(x) /\ UNCHANGED notRecVars
    \/ \E r \in Servers : \E w \in Workers : RecoverWorker(r, w) /\ UNCHANGED notRecVars
    \/ \E r \in Servers : \E s \in Servers : RecoverServer(r, s) /\ UNCHANGED notRecVars

\* The recovery loop of a live server keeps running: a reclamation that stays
\* possible is carried out.
RecFairness ==
    /\ \A w \in Workers :
          WF_vars(\E r \in Servers : RecoverWorker(r, w) /\ UNCHANGED notRecVars)
    /\ \A s \in Servers :
          WF_vars(\E r \in Servers : RecoverServer(r, s) /\ UNCHANGED notRecVars)

SpecRecov == RecInit /\ [][RecNext]_vars /\ RecFairness


\* The WorkerThread row of w is deleted in this step.
Deleted(w) == worker_rows[w].exists /\ ~worker_rows'[w].exists

\* What the deletion of the WorkerThread w leaves: its heartbeat or that of
\* its server was stale, and the Execution its row named has workerThreadId
\* cleared, is QUEUED when it was STARTED, and is in the queue again unless
\* it had ended.
ReclaimedWith(w) ==
    LET e == worker_rows[w].execution_id
    IN  /\ w \in stale_beats \/ ServerOf(w) \in stale_beats
        /\ e # NoId =>
              /\ executions'[e].execution_server_thread_id = Null
              /\ executions[e].state = EXECUTION_STATE_STARTED
                    => executions'[e].state = EXECUTION_STATE_QUEUED
              /\ executions[e].state \notin TerminalStates => InQueue(queue', e)

\* Recovery acts as section 4.7 says, for a single WorkerThread and for all
\* the WorkerThreads of a deleted ExecutionServer.
RecoveryReclaims ==
    [][/\ \A w \in Workers : Deleted(w) => ReclaimedWith(w)
       /\ \A s \in Servers :
             server_rows[s] /\ ~server_rows'[s]
                => /\ s \in stale_beats
                   /\ \A w \in Workers : ServerOf(w) = s => ~worker_rows'[w].exists]_vars

\* No Execution is leased to a WorkerThread whose row is deleted.
NoLeaseToDeleted ==
    \A e \in ExecIds : \A w \in Workers :
        executions[e].execution_server_thread_id = w => worker_rows[w].exists

MaxPush == 2

\* The TriggerEvent a producer pushes: the seq-th one it created.
ItemOf(p, seq) == [producer |-> p, seq |-> seq]

\* A mutant of push: when the queue is full the TriggerEvent is discarded and
\* push returns.
push_dropping(p) ==
    LET seq == producers[p].seq + 1
    IN  /\ ~producers[p].cancelled
        /\ seq <= MaxPush
        /\ trigger_queue' = IF Len(trigger_queue) < QueueCap
                            THEN Append(trigger_queue, ItemOf(p, seq))
                            ELSE trigger_queue
        /\ producers' = [producers EXCEPT ![p] = ProducerAt(seq, FALSE, "pushed")]
        /\ UNCHANGED <<consumers, taken, overflowed>>

\* push: the TriggerEvent goes to the tail; while the queue is full the
\* producer is suspended (the step is not taken).
push(p) ==
    LET seq == producers[p].seq + 1
    IN  /\ ~producers[p].cancelled
        /\ seq <= MaxPush
        /\ Len(trigger_queue) < QueueCap
        /\ trigger_queue' = Append(trigger_queue, ItemOf(p, seq))
        /\ producers' = [producers EXCEPT ![p] = ProducerAt(seq, FALSE, "pushed")]
        /\ UNCHANGED <<consumers, taken, overflowed>>

\* The producer is cancelled while its push waits on the full queue: the push
\* fails with Overflow, which is propagated to the caller.
push_cancelled(p) ==
    LET seq == producers[p].seq + 1
    IN  /\ ~producers[p].cancelled
        /\ seq <= MaxPush
        /\ Len(trigger_queue) >= QueueCap
        /\ producers' = [producers EXCEPT ![p] = ProducerAt(seq, TRUE, "Overflow")]
        /\ overflowed' = overflowed \cup {ItemOf(p, seq)}
        /\ UNCHANGED <<trigger_queue, consumers, taken>>

\* The producer is cancelled while it is not pushing.
cancel_producer(p) ==
    /\ ~producers[p].cancelled
    /\ producers' = [producers EXCEPT ![p].cancelled = TRUE]
    /\ UNCHANGED <<trigger_queue, consumers, taken, overflowed>>

\* pop: the head of the queue.
pop(c) ==
    /\ trigger_queue # <<>>
    /\ consumers' = [consumers EXCEPT ![c] = Head(trigger_queue)]
    /\ taken' = Append(taken, Head(trigger_queue))
    /\ trigger_queue' = Tail(trigger_queue)
    /\ UNCHANGED <<producers, overflowed>>

\* pop on an empty queue returns nothing after its timeout.
pop_timeout(c) ==
    /\ trigger_queue = <<>>
    /\ consumers[c] # NoItem
    /\ consumers' = [consumers EXCEPT ![c] = NoItem]
    /\ UNCHANGED <<trigger_queue, producers, taken, overflowed>>

TqInit ==
    /\ col_id_type = "INT"
    /\ tbl = EmptyTable
    /\ last = NoCall
    /\ lastVer = [i \in Ids |-> NoVer]
    /\ CasNone
    /\ checked = NoCheck
    /\ UsrNone
    /\ ExeNone
    /\ ExtNone

notTqVars == <<rowVars, lastVer, casVars, checked, usrVars, exeVars, regVars, codecVars, trigVars, recVars, svcVars, tagVars, memVars>>

TqNext ==
    \/ \E p \in Producers : push(p) /\ UNCHANGED notTqVars
    \/ \E p \in Producers : push_cancelled(p) /\ UNCHANGED notTqVars
    \/ \E p \in Producers : cancel_producer(p) /\ UNCHANGED notTqVars
    \/ \E c \in Consumers : pop(c) /\ UNCHANGED notTqVars
    \/ \E c \in Consumers : pop_timeout(c) /\ UNCHANGED notTqVars

SpecQueue == TqInit /\ [][TqNext]_vars

\* The TriggerEvents of a sequence that producer p pushed, by seq.
SeqsOf(q, p) ==
    LET own == SelectSeq(q, LAMBDA x : x.producer = p)
    IN  [i \in 1 .. Len(own) |-> own[i].seq]

\* The TriggerEvents producer p has handed to push so far.
Handed(p) == {ItemOf(p, n) : n \in 1 .. producers[p].seq}

Elements(q) == {q[i] : i \in 1 .. Len(q)}

RegClasses ==
    {ClassOf(<<"a">>, <<"A">>), ClassOf(<<"a">>, <<"a">>), ClassOf(<<"A">>, <<"a">>)}

\* The names looked up: full names in every casing, and bare class names.
RegNames ==
    {<<"a", ".", "a">>, <<"a", ".", "A">>, <<"A", ".", "a">>, <<"A", ".", "A">>,
     <<"a">>, <<"A">>}

\* class X(Serializable): a subclass comes into being.
Define(cls) ==
    /\ cls \notin subclasses
    /\ subclasses' = subclasses \cup {cls}
    /\ UNCHANGED <<cache, looked, registered>>

\* serializable_classes.get_class(name), the set of subclasses iterating in
\* any order.
GetClass(name) ==
    \E order \in Orders(subclasses) :
        LET r == get_class(cache, order, name)
            rescanned == IF r.step = "exact" THEN {}
                         ELSE {cls \in subclasses : cache_index(cache, class_fullname(cls)) = 0}
        IN  /\ cache' = r.cache
            /\ looked' = [name |-> name, before |-> cache, cls |-> r.cls, step |-> r.step,
                          items |-> IF r.step = "exact" THEN cache
                                    ELSE serializable_subclasses_rescan(cache, order)]
            /\ registered' = registered \cup {<<class_fullname(cls), cls>> : cls \in rescanned}
            /\ UNCHANGED subclasses

RegInit ==
    /\ col_id_type = "INT"
    /\ tbl = EmptyTable
    /\ last = NoCall
    /\ lastVer = [i \in Ids |-> NoVer]
    /\ CasNone
    /\ checked = NoCheck
    /\ UsrNone
    /\ ExeNone
    /\ ExtNone

notRegVars == <<rowVars, lastVer, casVars, checked, usrVars, exeVars, codecVars, trigVars, recVars, tqVars, svcVars, tagVars, memVars>>

RegNext ==
    \/ \E cls \in RegClasses : Define(cls) /\ UNCHANGED notRegVars
    \/ \E name \in RegNames : GetClass(name) /\ UNCHANGED notRegVars

SpecReg == RegInit /\ [][RegNext]_vars

\* The keys of the registry, in insertion order.
Keys(c) == [i \in 1 .. Len(c) |-> c[i][1]]

\* The class of the first entry of c whose key, seen through f, is k.
FirstBy(c, f(_), k) ==
    LET i == first_index([j \in 1 .. Len(c) |-> f(c[j][1]) = k])
    IN  IF i = 0 THEN NoClass ELSE c[i][2]

\* The last lookup took the first hit of the fixed order: exact; after the
\* rescan (looked.items: the registry as the rescan left it), exact; full
\* name, case-insensitive; last dotted segment of a registered name; last
\* dotted segment, case-insensitive; else TypeError.
ResolvedInOrder ==
    LET name == looked.name
        items == looked.items
        hit1 == cache_get(looked.before, name)
        hit2 == cache_get(items, name)
        hit3 == FirstBy(items, casefold, casefold(name))
        hit4 == FirstBy(items, last_segment, name)
        hit5 == FirstBy(items, LAMBDA k : casefold(last_segment(k)),
                        last_segment(casefold(name)))
    IN  looked.step # "none" =>
          IF hit1 # NoClass THEN looked.step = "exact" /\ looked.cls = hit1
          ELSE IF hit2 # NoClass THEN looked.step = "rescan" /\ looked.cls = hit2
          ELSE IF hit3 # NoClass THEN looked.step = "casefold" /\ looked.cls = hit3
          ELSE IF hit4 # NoClass THEN looked.step = "last" /\ looked.cls = hit4
          ELSE IF hit5 # NoClass THEN looked.step = "casefold_last" /\ looked.cls = hit5
          ELSE looked.step = "TypeError" /\ looked.cls = NoClass

\* Every name a class was registered under resolves to that class.
ExactRegistrationWins ==
    \A reg \in registered : cache_get(cache, reg[1]) = reg[2]

\* C18: get_class resolves in the fixed order and returns the first hit, and
\* a name with an exact registration is never resolved to a class registered
\* under a different name.
C18_RegistryLookup ==
    /\ ResolvedInOrder
    /\ ExactRegistrationWins


(***************************************************************************)
(* DataServiceJob and DataServiceConfig (data_service.py) over the         *)
(* ModelDatabaseType of each class (model_database.py), called from        *)
(* concurrent threads.                                                     *)
(***************************************************************************)
MaxItems == 1

ItemIds == 1 .. MaxItems

ItemNames == {<<" ", "A">>}

\* The store each method takes from self._db.
store_of(op) ==
    IF op = "save_job" THEN "Job"
    ELSE IF op = "save_config" THEN "Job"
    ELSE IF op = "delete_job" THEN "Job"
    ELSE "Config"

\* The class of the object each method is declared for.
class_of(op) == IF op \in {"save_job", "delete_job"} THEN "Job" ELSE "Config"

\* _parse_str("name", trim=True) of Job, _parse_str("name", trim=True,
\* casefold=True) of Config.
parse_str_name(cls, value) ==
    IF cls = "Config" THEN parse_str_username(value) ELSE trim(value)

\* obj.check(): the validators run again and the object takes their values.
entity_check(obj) == [obj EXCEPT !.name = parse_str_name(obj.cls, obj.name)]

entity_check_ok(obj) == parse_str_name(obj.cls, obj.name) # NoName

\* ModelDatabaseType._check_type: the TypeError it raises, "none" when it returns.
check_type(model_type, obj) == IF obj.cls # model_type THEN "TypeError" ELSE "none"

\* dict.get(obj.id) on the store: the stored entity or None.
entity_get(data, i) == IF IndexOfId(data, i) = 0 THEN NoEntity ELSE data[IndexOfId(data, i)]

\* uuid.uuid4(): a ver that no stored entity and no call under way carries.
entity_uuid4 ==
    LET used == UNION {{db_data[cls][k].ver : k \in 1 .. Len(db_data[cls])} : cls \in ModelTypes}
                    \cup {calls[t].obj.ver : t \in Threads}
    IN  CHOOSE v \in 1 .. (2 * MaxItems + Cardinality(Threads) + 1) :
            v \notin used /\ \A w \in 1 .. v - 1 : w \in used

\* The objects a caller may pass to a method: built anew, or as read from the
\* store of its class.
EntitiesFor(op) ==
    {EntityOf(class_of(op), i, v, n) :
        i \in ItemIds,
        v \in {DefaultVer} \cup {db_data[class_of(op)][k].ver : k \in 1 .. Len(db_data[class_of(op)])},
        n \in ItemNames}


\* ModelDatabaseType.save under its lock, after _check_type.
entity_save(data, obj, ver_new) ==
    LET k == IndexOfId(data, obj.id)
        stored == [obj EXCEPT !.ver = ver_new]
    IN  IF k # 0 /\ data[k].ver # obj.ver
        THEN [ok |-> FALSE, err |-> "Concurrency", data |-> data]
        ELSE [ok |-> TRUE, err |-> "none",
              data |-> IF k # 0 THEN [data EXCEPT ![k] = stored] ELSE Append(data, stored)]

\* ModelDatabaseType.delete under its lock, after _check_type: the ver check
\* applies to a stored object only, and db.pop(obj.id) raises KeyError when
\* the id is not stored.
entity_delete(data, obj) ==
    LET k == IndexOfId(data, obj.id)
    IN  IF k # 0 /\ data[k].ver # obj.ver
        THEN [ok |-> FALSE, err |-> "Concurrency", data |-> data]
        ELSE IF k = 0
        THEN [ok |-> FALSE, err |-> "KeyError", data |-> data]
        ELSE [ok |-> TRUE, err |-> "none", data |-> RemoveAt(data, k)]

\* save_job(job) / save_config(config): check(), then db.save of the store
\* the method takes.
SaveEntity(t, op, arg) ==
    LET obj == entity_check(arg)
        st == store_of(op)
        e == check_type(st, obj)
        r == entity_save(db_data[st], obj, entity_uuid4)
    IN  /\ calls[t].pc = "idle"
        /\ IF ~entity_check_ok(arg)
           THEN /\ calls' = [calls EXCEPT ![t] =
                                CallAt("done", op, arg, arg, FALSE, "Validation")]
                /\ UNCHANGED db_data
           ELSE IF e # "none"
           THEN /\ calls' = [calls EXCEPT ![t] = CallAt("done", op, arg, obj, FALSE, e)]
                /\ UNCHANGED db_data
           ELSE /\ calls' = [calls EXCEPT ![t] =
                                CallAt("done", op, arg,
                                       IF r.ok THEN [obj EXCEPT !.ver = entity_uuid4] ELSE obj,
                                       r.ok, r.err)]
                /\ db_data' = [db_data EXCEPT ![st] = r.data]

\* delete_job(job) / delete_config(config) up to and including
\* delete_check_not_exist.
DeleteEntityExists(t, op, arg) ==
    LET obj == entity_check(arg)
        existing == entity_get(db_data[store_of(op)], arg.id)
    IN  /\ calls[t].pc = "idle"
        /\ calls' = [calls EXCEPT ![t] =
                        IF ~entity_check_ok(arg)
                        THEN CallAt("done", op, arg, arg, FALSE, "Validation")
                        ELSE IF existing = NoEntity
                        THEN CallAt("done", op, arg, obj, TRUE, "none")
                        ELSE CallAt("found", op, arg, obj, FALSE, "none")]
        /\ UNCHANGED db_data

\* db.delete(job) / db.delete(config)
DeleteEntityWrite(t) ==
    LET op == calls[t].op
        obj == calls[t].obj
        st == store_of(op)
        e == check_type(st, obj)
        r == entity_delete(db_data[st], obj)
    IN  /\ calls[t].pc = "found"
        /\ IF e # "none"
           THEN /\ calls' = [calls EXCEPT ![t] =
                                CallAt("done", op, calls[t].arg, obj, FALSE, e)]
                /\ UNCHANGED db_data
           ELSE /\ calls' = [calls EXCEPT ![t] =
                                CallAt("done", op, calls[t].arg, obj, r.ok, r.err)]
                /\ db_data' = [db_data EXCEPT ![st] = r.data]

\* The method returns or raises.
ReturnCall(t) ==
    /\ calls[t].pc = "done"
    /\ calls' = [calls EXCEPT ![t] = IdleCall]
    /\ UNCHANGED db_data

SvcInit ==
    /\ col_id_type = "INT"
    /\ tbl = EmptyTable
    /\ last = NoCall
    /\ lastVer = [i \in Ids |-> NoVer]
    /\ CasNone
    /\ checked = NoCheck
    /\ UsrNone
    /\ ExeNone
    /\ ExtNone

notSvcVars ==
    <<rowVars, lastVer, casVars, checked, usrVars, exeVars, regVars, codecVars, trigVars,
      recVars, tqVars, tagVars, memVars>>

SvcNext ==
    \/ \E t \in Threads : \E op \in {"save_job", "save_config"} : \E arg \in EntitiesFor(op) :
          SaveEntity(t, op, arg) /\ UNCHANGED notSvcVars
    \/ \E t \in Threads : \E op \in {"delete_job", "delete_config"} : \E arg \in EntitiesFor(op) :
          DeleteEntityExists(t, op, arg) /\ UNCHANGED notSvcVars
    \/ \E t \in Threads : DeleteEntityWrite(t) /\ UNCHANGED notSvcVars
    \/ \E t \in Threads : ReturnCall(t) /\ UNCHANGED notSvcVars

SpecSvc == SvcInit /\ [][SvcNext]_vars

\* The call of thread t ends in this step.
Ends(t, ops) == calls[t].pc # "done" /\ calls'[t].pc = "done" /\ calls'[t].op \in ops

\* C19: a delete for an id that is not, or is no longer, in the store returns
\* normally and leaves the store as it was, also when another caller deleted
\* the entity in the meantime.
C19_DeleteAbsentIsNoOp ==
    [][\A t \in Threads :
          /\ Ends(t, {"delete_job", "delete_config"})
          /\ entity_check_ok(calls'[t].arg)
          /\ entity_get(db_data[store_of(calls'[t].op)], calls'[t].arg.id) = NoEntity
          => /\ calls'[t].ok
             /\ calls'[t].err = "none"
             /\ db_data' = db_data]_vars

\* The save of a valid object that is not stored, or is stored under the ver
\* the caller passed, ends in this step without error, and the store of the
\* class then maps the id to the object as checked.
SaveStores(t, op) ==
    LET arg == calls'[t].arg
        cls == class_of(op)
    IN  /\ Ends(t, {op})
        /\ entity_check_ok(arg)
        /\ entity_get(db_data[cls], arg.id).ver \in {NoVer, arg.ver}
        => /\ calls'[t].ok
           /\ calls'[t].err = "none"
           /\ entity_get(db_data'[cls], arg.id) = calls'[t].obj
           /\ [calls'[t].obj EXCEPT !.ver = arg.ver] = entity_check(arg)

\* What holds of C20: save_job stores every valid Job.
SaveJobStores == [][\A t \in Threads : SaveStores(t, "save_job")]_vars

\* C20: for every valid Config c, save_config(c) completes without error and
\* get_configs() maps c.id to an object equal to c, as save_job does for Jobs
\* and get_jobs.
C20_SaveConfigStores ==
    [][\A t \in Threads : SaveStores(t, "save_job") /\ SaveStores(t, "save_config")]_vars


(***************************************************************************)
(* Deleting by dsmall and deleting everything.                             *)
(***************************************************************************)
GivenDsmalls(c) == {c.rows[k].dsmall : k \in 1 .. Len(c.rows)}

HitBy(c) == {i \in StoredIds(c.pre) : c.pre[i].dsmall \in GivenDsmalls(c)}

\* C21: delete_dsmalls(values) deletes exactly the stored rows whose dsmall
\* is, compared case-sensitively, one of the given values, returns how many
\* rows it deleted (0 when none match) and leaves every other row as it
\* was; delete_all deletes every row and returns the previous row count.
C21_DeleteByDsmall ==
    /\ last.op = "delete_dsmalls" =>
          /\ last.ok
          /\ last.count = Cardinality(HitBy(last))
          /\ \A i \in Ids : tbl[i] = IF i \in HitBy(last) THEN Absent ELSE last.pre[i]
    /\ last.op = "delete_all" =>
          /\ last.ok
          /\ tbl = EmptyTable
          /\ last.count = select_count_all(last.pre)

\* A call given "A" and "b" on a table holding an "a" row and a "b" row:
\* one row deleted, the "a" row kept.
C21_Witness ==
    /\ last.op = "delete_dsmalls"
    /\ GivenDsmalls(last) = {"A", "b"}
    /\ \E i, j \in StoredIds(last.pre) :
          /\ last.pre[i].dsmall = "a"
          /\ last.pre[j].dsmall = "b"
          /\ Stored(tbl, i)
          /\ ~Stored(tbl, j)
    /\ last.count = 1


(***************************************************************************)
(* What the queries of the store return after inserts, updates and deletes.*)
(***************************************************************************)
\* The objects the table should hold, as <<id, class>>: the object of the
\* caller once saved, and the object the table started with unless deleted.
OtherClass == ClassOf(<<"t">>, <<"b">>)

StoredObjects ==
    (IF dbo.saved THEN {<<dbo.id, dbo.obj.cls>>} ELSE {})
    \cup (IF Stored(tbl, 1) /\ dbo.id # 1 THEN {<<1, OtherClass>>} ELSE {})

\* The table is as the last save or delete left it.
Settled == dbo.saved \/ dbo.id = NoId

\* C22: after any sequence of inserts, updates and deletes select_dsmalls
\* returns exactly the dsmall values of the rows stored, select_count_all
\* exactly their number, and get_types exactly the classes of the objects
\* stored.
C22_QueriesReflectStore ==
    Settled =>
       /\ select_count_all(tbl) = Cardinality(StoredObjects)
       /\ select_dsmalls(tbl) = {class_fullname(o[2]) : o \in StoredObjects}
       /\ \A order \in Orders(subclasses) :
             get_types(cache, order, tbl) = {o[2] : o \in StoredObjects}

\* Two objects of different classes are stored, the caller's one after an
\* update that changed its class.
C22_Witness ==
    /\ dbo.saved
    /\ dbo.ver > ROW_VERSION_DEFAULT
    /\ Cardinality(StoredObjects) = 2
    /\ dbo.obj.cls # OtherClass
    /\ \A order \in Orders(subclasses) :
          get_types(cache, order, tbl) = PersonClasses


(***************************************************************************)
(* The tags validator of the model classes (model.py _parse_list_tags).    *)
(***************************************************************************)
MaxTags == 3

MaxValidations == 2

\* ord(ch) of the characters in use
ord(ch) == CASE ch = " " -> 32 [] ch = "A" -> 65 [] ch = "a" -> 97 [] ch = "b" -> 98

\* str < str: by code point, a proper prefix first
RECURSIVE str_lt(_, _)
str_lt(x, y) ==
    IF y = <<>> THEN FALSE
    ELSE IF x = <<>> THEN TRUE
    ELSE IF Head(x) # Head(y) THEN ord(Head(x)) < ord(Head(y))
    ELSE str_lt(Tail(x), Tail(y))

\* sorted() of a set of str
RECURSIVE sorted(_)
sorted(strs) ==
    IF strs = {} THEN <<>>
    ELSE LET least == CHOOSE x \in strs : \A y \in strs \ {x} : str_lt(x, y)
         IN  <<least>> \o sorted(strs \ {least})

\* The (k, v) the loop reaches d[k].add(v) with.
tag_kv(tag) == <<trim_casefold(tag.name), trim_casefold(tag.value)>>

tag_kept(tag) == ~tag.none /\ tag_kv(tag)[1] # NoName /\ tag_kv(tag)[2] # NoName

\* d after the loop over value: the keys, and the set under each key
tags_dict_keys(value) == {tag_kv(value[i])[1] : i \in {j \in 1 .. Len(value) : tag_kept(value[j])}}

tags_dict_get(value, k) ==
    {tag_kv(value[i])[2] : i \in {j \in 1 .. Len(value) : tag_kept(value[j]) /\ tag_kv(value[j])[1] = k}}

\* for v in sorted(d[k]): value.append(Tag.create(k, v, skip_validation=True))
tags_of_key(k, vs) == [i \in 1 .. Len(vs) |-> TagOf(k, vs[i])]

RECURSIVE tags_append_sorted(_, _)
tags_append_sorted(value, ks) ==
    IF ks = <<>> THEN <<>>
    ELSE tags_of_key(Head(ks), sorted(tags_dict_get(value, Head(ks))))
         \o tags_append_sorted(value, Tail(ks))

RECURSIVE tags_as_met(_)
tags_as_met(value) ==
    IF value = <<>> THEN <<>>
    ELSE (IF tag_kept(Head(value))
          THEN <<TagOf(tag_kv(Head(value))[1], tag_kv(Head(value))[2])>> ELSE <<>>)
         \o tags_as_met(Tail(value))

\* Variant: every kept tag is appended as the loop meets it.
parse_list_tags_as_met(value) == tags_as_met(value)

\* _parse_list_tags.apply(value); a value of None gives the empty list
parse_list_tags(value) == tags_append_sorted(value, sorted(tags_dict_keys(value)))

\* The names and values of the tags a caller builds (Tag.construct does not
\* validate): plain, in capitals, padded, blank, None or empty (<<>>).
TagNames == {<<"a">>, <<"A", " ">>, <<"a", "b">>, <<" ">>}

TagValues == {<<"b">>, <<" ", "A">>, <<>>}

TagLists == BatchesOf({NoneTag} \cup {TagOf(n, v) : n \in TagNames, v \in TagValues}, MaxTags) \cup {<<>>}

\* ModelBase.check() / construction of the model object: the validator runs
\* on the tags list the object holds.
Validate ==
    /\ validated < MaxValidations
    /\ tags_val' = parse_list_tags(tags_val)
    /\ validated' = validated + 1
    /\ UNCHANGED tags_arg

TagsInit ==
    /\ col_id_type = "INT"
    /\ tbl = EmptyTable
    /\ last = NoCall
    /\ lastVer = [i \in Ids |-> NoVer]
    /\ CasNone
    /\ checked = NoCheck
    /\ UsrNone
    /\ ExeNone
    /\ RegNone
    /\ CodecNone
    /\ TrigNone
    /\ RecNone
    /\ TqNone
    /\ SvcNone
    /\ MemNone
    /\ tags_arg \in TagLists
    /\ tags_val = tags_arg
    /\ validated = 0

notTagVars == <<rowVars, lastVer, casVars, checked, usrVars, exeVars, regVars, codecVars, trigVars, recVars, tqVars, svcVars, memVars>>

TagsNext == Validate /\ UNCHANGED notTagVars

SpecTags == TagsInit /\ [][TagsNext]_vars

\* The pairs the list as handed in stands for.
PairsOf(value) == {tag_kv(value[i]) : i \in {j \in 1 .. Len(value) : tag_kept(value[j])}}

TagBefore(x, y) == str_lt(x.name, y.name) \/ (x.name = y.name /\ str_lt(x.value, y.value))

\* C23: after validation the tags list holds each (trimmed, casefolded name;
\* trimmed, casefolded value) pair of the input once, without the tags whose
\* name or value is empty after trimming, sorted by name and then by value;
\* duplicates do not make it fail, and validating again changes nothing.
C23_TagsNormalized ==
    validated >= 1 =>
       /\ \A i \in 1 .. Len(tags_val) :
             /\ ~tags_val[i].none
             /\ tags_val[i].name # NoName /\ tags_val[i].value # NoName
             /\ tags_val[i].name = trim_casefold(tags_val[i].name)
             /\ tags_val[i].value = trim_casefold(tags_val[i].value)
       /\ {<<tags_val[i].name, tags_val[i].value>> : i \in 1 .. Len(tags_val)} = PairsOf(tags_arg)
       /\ Len(tags_val) = Cardinality(PairsOf(tags_arg))
       /\ \A i, j \in 1 .. Len(tags_val) : i < j => TagBefore(tags_val[i], tags_val[j])
       /\ parse_list_tags(tags_val) = tags_val

\* A list with the same pair twice (once padded and in capitals), after a
\* tag that sorts last; validated twice.
C23_Witness ==
    /\ validated = 2
    /\ tags_arg = <<TagOf(<<"a", "b">>, <<" ", "A">>), TagOf(<<"a">>, <<"b">>), TagOf(<<"A", " ">>, <<"b">>)>>
    /\ tags_val = <<TagOf(<<"a">>, <<"b">>), TagOf(<<"a", "b">>, <<"a">>)>>


(***************************************************************************)
(* update: the (id, ver) check and the null payload columns.               *)
(***************************************************************************)
\* How many rows before the k-th of the batch carry its id.
EarlierSameId(rows, k) == Cardinality({j \in 1 .. k - 1 : rows[j].id = rows[k].id})

\* The k-th row of the call names an id that was stored, with the ver the
\* id had when the row's turn came.
MatchedWhenRun(c, k) ==
    /\ Stored(c.pre, c.rows[k].id)
    /\ c.rows[k].ver = c.pre[c.rows[k].id].ver + EarlierSameId(c.rows, k)

\* C24: whatever the null pattern of (dsmall, dmedium, dlarge), update
\* returns successfully only if the supplied id was stored with exactly the
\* supplied ver when the call ran; a stale ver or an unknown id never gets
\* a success result.
C24_UpdateChecksIdVer ==
    (last.op = "update" /\ last.ok) =>
        \A k \in 1 .. Len(last.rows) : MatchedWhenRun(last, k)


\* The k-th row of the call is the only one of the batch with its id.
OnlyOfItsId(rows, k) == \A j \in 1 .. Len(rows) : rows[j].id = rows[k].id => j = k

\* What the k-th row asks the payload column to be: the supplied value, the
\* stored one where the input is null.
Expected(supplied, stored) == IF supplied # Null THEN supplied ELSE stored

\* The row returned for the k-th input row is complete, is the row now
\* stored under its id, and carries the supplied values and, for the null
\* columns, the values stored before.
ReturnedIsStored(c, t, k) ==
    LET in == c.rows[k]
        ret == c.out[k]
    IN  /\ ~HasNullPayload(ret)
        /\ Stored(t, in.id)
        /\ ret = Row(in.id, t[in.id].ver, t[in.id].dsmall, t[in.id].dmedium, t[in.id].dlarge)
        /\ ret.dsmall = Expected(in.dsmall, c.pre[in.id].dsmall)
        /\ ret.dmedium = Expected(in.dmedium, c.pre[in.id].dmedium)
        /\ ret.dlarge = Expected(in.dlarge, c.pre[in.id].dlarge)

\* C25: after a successful update with populate_missing_fields=True the
\* returned row has no null column and is the row then stored under its id,
\* with the supplied values where supplied and the previously stored ones
\* where the input was null, for every null pattern including all null.
C25_PopulatedRowIsStoredRow ==
    (last.op = "update" /\ last.ok /\ last.populate) =>
        \A k \in 1 .. Len(last.rows) :
            OnlyOfItsId(last.rows, k) => ReturnedIsStored(last, tbl, k)


\* The SET list of the variant update picks for a row: ver and the payload
\* columns of build_stmts[stmt_index].
SetListOf(row) == {"ver"} \cup build_stmts[stmt_index_of(row)]

NonNullColumns(row) ==
    (IF row.dsmall # Null THEN {"dsmall"} ELSE {})
    \cup (IF row.dmedium # Null THEN {"dmedium"} ELSE {})
    \cup (IF row.dlarge # Null THEN {"dlarge"} ELSE {})

\* The variant picked for the k-th row was executed on the stored row: ver
\* and the non-null columns are set, the null columns are as before.
VariantExecuted(c, t, k) ==
    LET in == c.rows[k]
    IN  /\ SetListOf(in) = {"ver"} \cup NonNullColumns(in)
        /\ \E n \in 1 .. Len(c.log) : c.log[n] = Change(in.id, in.ver, in.ver + 1)
        /\ t[in.id] = [ver |-> in.ver + 1,
                       dsmall |-> Expected(in.dsmall, c.pre[in.id].dsmall),
                       dmedium |-> Expected(in.dmedium, c.pre[in.id].dmedium),
                       dlarge |-> Expected(in.dlarge, c.pre[in.id].dlarge)]

\* C26: a null payload column is "do not touch": update executes, of the
\* eight cached variants, the one whose SET list is ver plus exactly the
\* non-null payload columns of the input row, so every column that was null
\* in the input keeps its stored value and every non-null one is overwritten.
C26_NullColumnsUntouched ==
    (last.op = "update" /\ last.ok) =>
        \A k \in 1 .. Len(last.rows) :
            OnlyOfItsId(last.rows, k) => VariantExecuted(last, tbl, k)


(***************************************************************************)
(* A call without an outer connection is one transaction.                  *)
(***************************************************************************)
Touched(log, i) == \E n \in 1 .. Len(log) : log[n].id = i

LastChange(log, i) ==
    log[CHOOSE n \in 1 .. Len(log) :
            log[n].id = i /\ \A m \in n + 1 .. Len(log) : log[m].id # i]

\* Every statement the call executed shows in the table t: an id no
\* statement touched is as before, a touched id has the ver its last
\* statement left (no row after a DELETE).
Committed(c, t) ==
    \A i \in Ids :
        IF ~Touched(c.log, i) THEN t[i] = c.pre[i]
        ELSE IF LastChange(c.log, i).to = NoVer THEN ~Stored(t, i)
        ELSE Stored(t, i) /\ t[i].ver = LastChange(c.log, i).to

\* C27: an insert, update or delete called without an outer connection is
\* all-or-nothing: when it fails on any row the table is exactly as before
\* the call, the rows processed before the failing one included; when it
\* succeeds all its changes are in the table.
C27_BulkAllOrNothing ==
    last.op \in {"insert", "update", "delete"} =>
        IF last.ok THEN Committed(last, tbl) ELSE tbl = last.pre

\* A bulk update whose first row matched a stored row and whose second row
\* failed on the ver the first one left.
C27_Witness ==
    /\ last.op = "update"
    /\ ~last.ok
    /\ last.err = "Concurrency"
    /\ Len(last.rows) = 2
    /\ Matches(last.pre, last.rows[1])
    /\ last.rows[1].dsmall # Null
    /\ last.rows[1].dsmall # last.pre[last.rows[1].id].dsmall
    /\ tbl = last.pre


(***************************************************************************)
(* Saving one DatabaseObject again and again.                              *)
(***************************************************************************)
\* The step is a save() of the DatabaseObject that returned.
Saved == dbo'.saved /\ dbo'.ver # dbo.ver

\* save() of an object without ver inserts: a new id, ver 1, one more row.
FirstSaveInserts ==
    (Saved /\ dbo.ver = NoVer) =>
        /\ dbo'.id # NoId /\ ~Stored(tbl, dbo'.id)
        /\ dbo'.ver = ROW_VERSION_DEFAULT
        /\ select_count_all(tbl') = select_count_all(tbl) + 1

\* save() of an object with a ver updates: same id, ver + 1, no new row.
LaterSaveUpdates ==
    (Saved /\ dbo.ver # NoVer) =>
        /\ dbo'.id = dbo.id /\ Stored(tbl, dbo.id)
        /\ dbo'.ver = dbo.ver + 1
        /\ select_count_all(tbl') = select_count_all(tbl)

\* The row of the object carries its ver; no other row is touched.
SaveWritesOneRow ==
    Saved =>
        /\ Stored(tbl', dbo'.id) /\ tbl'[dbo'.id].ver = dbo'.ver
        /\ \A i \in Ids \ {dbo'.id} : tbl'[i] = tbl[i]

\* get_all after a save returns the object with the tags it has in memory.
TagsReadBack ==
    (dbo.saved /\ got # <<>>) =>
        /\ dbo.id \in DOMAIN got
        /\ got[dbo.id].ver = dbo.ver
        /\ got[dbo.id].tags = dbo.tags

\* C28: of the saves of one DatabaseObject, with tags added, changed or
\* cleared in between, the first inserts and assigns an id and ver 1, every
\* later one updates the same id and raises ver by exactly 1 (ver = k after
\* k saves), one row exists for the object, no save fails, and after each
\* save get_all returns the tag map the object has in memory.
C28_RepeatedSave ==
    /\ [](dbo.err = "none")
    /\ []TagsReadBack
    /\ [][FirstSaveInserts /\ LaterSaveUpdates /\ SaveWritesOneRow]_vars

\* The object was saved a second time, with a tag, and read back.
C28_Witness ==
    /\ dbo.saved
    /\ dbo.ver = ROW_VERSION_DEFAULT + 1
    /\ dbo.tags # NoTags
    /\ got # <<>>
    /\ got[dbo.id].tags = dbo.tags
    /\ select_count_all(tbl) = 2


(***************************************************************************)
(* ModelDatabaseType (model_database.py) with the objects as Python holds  *)
(* them: by reference.  One id is followed; a thread holds at most one     *)
(* object of that id.                                                      *)
(***************************************************************************)
FieldValues == {"p", "q"}

MaxObjVer == 4

\* The references in use by the store and the threads.
Referenced(st, ls) == ({st} \cup {ls[t].ref : t \in Threads}) \ {NoRef}

\* Objects nothing refers to are gone.
collect(objs, st, ls) ==
    [r \in ObjRefs |-> IF r \in Referenced(st, ls) THEN objs[r] ELSE NoModelObj]

\* The reference of a newly created object.
new_ref(st, ls) ==
    CHOOSE r \in ObjRefs \ Referenced(st, ls) :
        \A q \in ObjRefs \ Referenced(st, ls) : r <= q

\* uuid.uuid4(): a ver no object carries and no thread has read (the model
\* stops at MaxObjVer).
ver_uuid4 ==
    LET used == {objects[r].ver : r \in ObjRefs} \cup {locals[t].read_ver : t \in Threads}
    IN  1 + CHOOSE v \in used : \A w \in used : w <= v

\* The stored object, NoModelObj when the id is not stored.
Existing == IF data_ref = NoRef THEN NoModelObj ELSE objects[data_ref]

\* The thread is not inside a call on the store.
AtRest(t) == locals[t].op = "none"

\* A thread builds an object of the id: ver = Field(default_factory=uuid4).
Construct(t, value) ==
    LET ls == [locals EXCEPT ![t] = LocalOf(NoRef, 0, "none", "none")]
        r == new_ref(data_ref, ls)
    IN  /\ AtRest(t) /\ ver_uuid4 <= MaxObjVer
        /\ locals' = [locals EXCEPT ![t] = LocalOf(r, 0, "none", "none")]
        /\ objects' = collect([objects EXCEPT ![r] = ModelObj(ver_uuid4, value)], data_ref, locals')
        /\ UNCHANGED data_ref

\* get_all()[id]: a deep copy of the stored object
StoreGetAll(t) ==
    LET ls == [locals EXCEPT ![t] = LocalOf(NoRef, 0, "none", "none")]
        r == new_ref(data_ref, ls)
    IN  /\ AtRest(t) /\ data_ref # NoRef
        /\ locals' = [locals EXCEPT ![t] = LocalOf(r, Existing.ver, "none", "none")]
        /\ objects' = collect([objects EXCEPT ![r] = Existing], data_ref, locals')
        /\ UNCHANGED data_ref

\* get_by_id(id): self._data.get(id), the stored object
StoreGetById(t) ==
    /\ AtRest(t) /\ data_ref # NoRef
    /\ locals' = [locals EXCEPT ![t] = LocalOf(data_ref, Existing.ver, "none", "none")]
    /\ objects' = collect(objects, data_ref, locals')
    /\ UNCHANGED data_ref

\* obj.field = value on the object the thread holds
SetField(t, value) ==
    /\ AtRest(t) /\ locals[t].ref # NoRef
    /\ objects[locals[t].ref].value # value
    /\ objects' = [objects EXCEPT ![locals[t].ref].value = value]
    /\ UNCHANGED <<data_ref, locals>>

\* save(obj) under the lock
StoreSave(t) ==
    LET ref == locals[t].ref
        with_ver == [objects EXCEPT ![ref].ver = ver_uuid4]
        r == new_ref(NoRef, locals)
    IN  /\ AtRest(t) /\ ref # NoRef
        /\ IF data_ref # NoRef /\ Existing.ver # objects[ref].ver
           THEN /\ locals' = [locals EXCEPT ![t].op = "save", ![t].outcome = "Concurrency"]
                /\ UNCHANGED <<objects, data_ref>>
           ELSE /\ ver_uuid4 <= MaxObjVer
                /\ locals' = [locals EXCEPT ![t].op = "save", ![t].outcome = "ok"]
                /\ data_ref' = r
                /\ objects' = collect([with_ver EXCEPT ![r] = with_ver[ref]], r, locals)

\* delete(obj) under the lock
StoreDelete(t) ==
    LET ref == locals[t].ref
    IN  /\ AtRest(t) /\ ref # NoRef
        /\ IF data_ref # NoRef /\ Existing.ver # objects[ref].ver
           THEN /\ locals' = [locals EXCEPT ![t].op = "delete", ![t].outcome = "Concurrency"]
                /\ UNCHANGED <<objects, data_ref>>
           ELSE IF data_ref = NoRef
           THEN /\ locals' = [locals EXCEPT ![t].op = "delete", ![t].outcome = "KeyError"]
                /\ UNCHANGED <<objects, data_ref>>
           ELSE /\ locals' = [locals EXCEPT ![t].op = "delete", ![t].outcome = "ok"]
                /\ data_ref' = NoRef
                /\ objects' = collect(objects, NoRef, locals)

\* The call returned (or raised) and the thread goes on.
StoreReturn(t) ==
    /\ ~AtRest(t)
    /\ locals' = [locals EXCEPT ![t].op = "none", ![t].outcome = "none"]
    /\ UNCHANGED <<objects, data_ref>>

MemInit ==
    /\ col_id_type = "INT"
    /\ tbl = EmptyTable
    /\ last = NoCall
    /\ lastVer = [i \in Ids |-> NoVer]
    /\ CasNone
    /\ checked = NoCheck
    /\ UsrNone
    /\ ExeNone
    /\ ExtNone

notMemVars == <<rowVars, lastVer, casVars, checked, usrVars, exeVars, regVars, codecVars, trigVars, recVars, tqVars, svcVars, tagVars>>

MemNext ==
    \/ \E t \in Threads, value \in FieldValues : Construct(t, value) /\ UNCHANGED notMemVars
    \/ \E t \in Threads : StoreGetAll(t) /\ UNCHANGED notMemVars
    \/ \E t \in Threads : StoreGetById(t) /\ UNCHANGED notMemVars
    \/ \E t \in Threads, value \in FieldValues : SetField(t, value) /\ UNCHANGED notMemVars
    \/ \E t \in Threads : StoreSave(t) /\ UNCHANGED notMemVars
    \/ \E t \in Threads : StoreDelete(t) /\ UNCHANGED notMemVars
    \/ \E t \in Threads : StoreReturn(t) /\ UNCHANGED notMemVars

SpecMem == MemInit /\ [][MemNext]_vars

\* The step is a call of op by thread t.
CallBy(t, op) == locals[t].op = "none" /\ locals'[t].op = op

\* A save that fails raises the concurrency error for a stored object of
\* another ver and leaves the store and the object, its ver included, alone.
FailedSaveChangesNothing ==
    \A t \in Threads :
        (CallBy(t, "save") /\ locals'[t].outcome # "ok") =>
            /\ locals'[t].outcome = "Concurrency"
            /\ data_ref # NoRef /\ Existing.ver # objects[locals[t].ref].ver
            /\ UNCHANGED <<objects, data_ref>>

\* A save that succeeds gives the object a fresh ver and stores a copy of it.
SaveStoresCopy ==
    \A t \in Threads :
        (CallBy(t, "save") /\ locals'[t].outcome = "ok") =>
            /\ objects'[locals[t].ref].ver \notin {objects[r].ver : r \in ObjRefs}
            /\ data_ref' # NoRef /\ data_ref' # locals[t].ref
            /\ objects'[data_ref'] = objects'[locals[t].ref]

\* Of two threads that read the same stored ver and both saved, one succeeded.
OneWriterWins ==
    \A t, u \in Threads :
        (/\ t # u
         /\ locals[t].op = "save" /\ locals[u].op = "save"
         /\ locals[t].read_ver # 0 /\ locals[t].read_ver = locals[u].read_ver)
        => Cardinality({w \in {t, u} : locals[w].outcome = "ok"}) = 1

\* C29: the store serializes the writes of an id by the ver check under its
\* lock: a save against a stored object of another ver fails with the
\* concurrency error and changes neither the store nor obj.ver, a successful
\* save stores a deep copy under a fresh ver, and of two callers that read
\* the same stored version and both save exactly one succeeds.
C29_WritesSerialized ==
    /\ [][FailedSaveChangesNothing /\ SaveStoresCopy]_vars
    /\ []OneWriterWins

\* C30: the stored state changes only through save and delete: a step that
\* is neither (a read, or a thread changing an object it got from get_all
\* or get_by_id or passed to save) leaves the stored object as it is.
C30_StoreChangesBySaveAndDelete ==
    [][(\A t \in Threads : ~CallBy(t, "save") /\ ~CallBy(t, "delete")) => Existing' = Existing]_vars

====
